---------------------------- MODULE Spec2Model ----------------------------
(***************************************************************************)
(* A model of bank2je: the PDF text-extraction cascade (lib/pdf-parser.ts) *)
(* with the route that calls it, and the field normalisers of              *)
(* lib/normalize.ts.                                                       *)
(*                                                                         *)
(* Strings the code inspects character by character are sequences of       *)
(* one-character strings; a character outside ASCII is written by its code *)
(* point ("U+20B1" is the peso sign).                                      *)
(***************************************************************************)
EXTENDS Integers, Sequences, FiniteSets, TLC

VARIABLES
    pc,         \* position of parsePdfSmart and of the route around it
    warnings,   \* parsePdfSmart's local `warnings`
    s1, s2,     \* what stage 1 (pdf-parse) and stage 2 (pdfjs-dist) produced
    result,     \* what parsePdfSmart returned or threw
    response,   \* what the route answered
    ocrPc,      \* position inside ocrWithTesseract
    ocrErr,     \* the error ocrWithTesseract is unwinding with ("" if none)
    worker,     \* the tesseract worker: "none", "live", "terminated"
    doc,        \* the pdf.js document of the OCR stage: "none", "open", "destroyed"
    numPages,   \* doc.numPages
    pageNo,     \* the loop variable i of the OCR page loop
    ocrText,    \* non-whitespace characters accumulated in `text`
    npc,        \* the normaliser call: "idle", "call", "done", "redone"
    fn,         \* the normaliser under call ("none" when no call is modelled)
    raw,        \* its argument
    tieUp,      \* whether the double nearest a decimal tie lies above it
    out,        \* f(raw)
    again       \* f(f(raw))

normVars == <<npc, fn, raw, tieUp, out, again>>
vars == <<pc, warnings, s1, s2, result, response,
          ocrPc, ocrErr, worker, doc, numPages, pageNo, ocrText,
          npc, fn, raw, tieUp, out, again>>

(***************************************************************************)
(* ------------------------- lib/pdf-parser.ts --------------------------- *)
(***************************************************************************)

\* The yield threshold of the two text stages.
MinYield == 50

\* Pages of the document that the OCR stage renders.
MaxPages == 2

\* Non-whitespace lengths of the text a text stage may return.
StageYields == {0, 10, 49, 50, 200}

\* Non-whitespace lengths of the text recognised on one page.
PageYields == {0, 30}

\* A stage's text: who produced it and how many non-whitespace characters
\* it holds.  The stages trim their text, so it is "" exactly when nonws = 0.
Text(src, n) == [src |-> src, nonws |-> n]

NoOutcome == [kind |-> "none", text |-> Text("", 0)]
Raised == [kind |-> "raised", text |-> Text("", 0)]
Returned(t) == [kind |-> "text", text |-> t]

Warning(w, cause) == [w |-> w, cause |-> cause]
LowPdfParse == Warning("Low text from pdf-parse; trying pdfjs-dist.", "")
LowPdfJs == Warning("Low text from pdfjs-dist; trying OCR.", "")
OcrUsed == Warning("OCR used (tesseract.js).", "")

NoResult == [kind |-> "none", text |-> Text("", 0), strategy |-> "",
             warnings |-> <<>>, message |-> <<>>]
Ok(t, ws, strategy) == [kind |-> "ok", text |-> t, strategy |-> strategy,
                        warnings |-> ws, message |-> <<>>]
\* The text of a warning, in pieces: `${w}: ${cause}` for the warning of a
\* catch block, w alone for the others.
Pieces(warning) ==
    IF warning.cause = "" THEN <<warning.w>>
                          ELSE <<warning.w, ": ", warning.cause>>
\* ws.join(" | "), in pieces
RECURSIVE Join(_)
Join(ws) ==
    IF ws = <<>> THEN <<>>
    ELSE IF Len(ws) = 1 THEN Pieces(ws[1])
    ELSE Pieces(ws[1]) \o <<" | ">> \o Join(Tail(ws))

\* new Error(warnings.join(" | "))
Thrown(ws) == [kind |-> "error", text |-> Text("", 0), strategy |-> "",
               warnings |-> <<>>, message |-> Join(ws)]

NoResponse == [status |-> 0, error |-> "", details |-> <<>>, body |-> NoResult]

\* A threshold that the yield must exceed
AcceptYield_Strict(t) == t.nonws > 0 /\ t.nonws > MinYield
\* t && t.replace(/\s+/g, "").length >= 50
AcceptYield(t) == t.nonws > 0 /\ t.nonws >= MinYield

InitPdf ==
    /\ pc = "stage1"
    /\ warnings = <<>>
    /\ s1 = NoOutcome
    /\ s2 = NoOutcome
    /\ result = NoResult
    /\ response = NoResponse
    /\ ocrPc = "idle"
    /\ ocrErr = ""
    /\ worker = "none"
    /\ doc = "none"
    /\ numPages = 0
    /\ pageNo = 0
    /\ ocrText = 0

ocrVars == <<ocrPc, ocrErr, worker, doc, numPages, pageNo, ocrText>>

\* 1) pdf-parse: the try block when extractWithPdfParse returns t.
ExtractStage1_NoNotice(t) ==
    /\ s1' = Returned(t)
    /\ IF AcceptYield(t)
       THEN /\ result' = Ok(t, warnings, "pdf-parse")
            /\ pc' = "returned"
            /\ UNCHANGED warnings
       ELSE /\ pc' = "stage2"
            /\ UNCHANGED <<warnings, result>>

ExtractStage1(t) ==
    /\ s1' = Returned(t)
    /\ IF AcceptYield(t)
       THEN /\ result' = Ok(t, warnings, "pdf-parse")
            /\ pc' = "returned"
            /\ UNCHANGED warnings
       ELSE /\ warnings' = Append(warnings, LowPdfParse)
            /\ pc' = "stage2"
            /\ UNCHANGED result

\* 1) pdf-parse: the catch block.
FailStage1 ==
    /\ s1' = Raised
    /\ warnings' = Append(warnings, Warning("pdf-parse failed", "pdf-parse"))
    /\ pc' = "stage2"
    /\ UNCHANGED result

Stage1 ==
    /\ pc = "stage1"
    /\ \/ \E n \in StageYields : ExtractStage1(Text("pdf-parse", n))
       \/ FailStage1
    /\ UNCHANGED <<s2, response>>
    /\ UNCHANGED ocrVars
    /\ UNCHANGED normVars

\* 2) pdf.js text: the try block when extractWithPdfJs returns t.
ExtractStage2(t) ==
    /\ s2' = Returned(t)
    /\ IF AcceptYield(t)
       THEN /\ result' = Ok(t, warnings, "pdfjs-dist")
            /\ pc' = "returned"
            /\ UNCHANGED warnings
       ELSE /\ warnings' = Append(warnings, LowPdfJs)
            /\ pc' = "ocr"
            /\ UNCHANGED result

\* A catch block that records nothing
FailStage2_Unrecorded ==
    /\ s2' = Raised
    /\ pc' = "ocr"
    /\ UNCHANGED <<warnings, result>>

\* 2) pdf.js text: the catch block.
FailStage2 ==
    /\ s2' = Raised
    /\ warnings' = Append(warnings, Warning("pdfjs-dist text failed", "pdfjs-dist"))
    /\ pc' = "ocr"
    /\ UNCHANGED result

Stage2 ==
    /\ pc = "stage2"
    /\ \/ \E n \in StageYields : ExtractStage2(Text("pdfjs-dist", n))
       \/ FailStage2
    /\ UNCHANGED <<s1, response>>
    /\ UNCHANGED ocrVars
    /\ UNCHANGED normVars

(***************************************************************************)
(* ocrWithTesseract, one action per awaited call.  A call that fails       *)
(* leaves the function at once when it is outside the try block, and runs  *)
(* the finally block first when it is inside.                              *)
(***************************************************************************)

OcrRaise(why) ==
    /\ ocrPc' = "raised"
    /\ ocrErr' = why

OcrKeep == UNCHANGED <<pc, warnings, s1, s2, result, response>>

\* parsePdfSmart enters its third try block and calls ocrWithTesseract,
\* whose first await is loadPdfJs().
OcrLoadPdfJs ==
    /\ pc = "ocr"
    /\ ocrPc = "idle"
    /\ \E ok \in BOOLEAN :
          IF ok THEN ocrPc' = "canvas" /\ UNCHANGED ocrErr
                ELSE OcrRaise("pdfjs-dist module file not found")
    /\ UNCHANGED <<worker, doc, numPages, pageNo, ocrText>>
    /\ OcrKeep
    /\ UNCHANGED normVars

\* import("canvas") and the createCanvas check.
OcrImportCanvas ==
    /\ ocrPc = "canvas"
    /\ \E ok \in BOOLEAN :
          IF ok THEN ocrPc' = "createWorker" /\ UNCHANGED ocrErr
                ELSE OcrRaise("node-canvas not available")
    /\ UNCHANGED <<worker, doc, numPages, pageNo, ocrText>>
    /\ OcrKeep
    /\ UNCHANGED normVars

\* import("tesseract.js"), Tesseract.createWorker?.() and the !worker check.
OcrCreateWorker ==
    /\ ocrPc = "createWorker"
    /\ \E ok \in BOOLEAN :
          IF ok THEN /\ worker' = "live"
                     /\ ocrPc' = "initialize"
                     /\ UNCHANGED ocrErr
                ELSE /\ OcrRaise("tesseract.js createWorker() unavailable")
                     /\ UNCHANGED worker
    /\ UNCHANGED <<doc, numPages, pageNo, ocrText>>
    /\ OcrKeep
    /\ UNCHANGED normVars

\* worker.loadLanguage / initialize (v5) or reinitialize (v6): before the
\* try block, so a failure leaves the function directly.
OcrInitialize ==
    /\ ocrPc = "initialize"
    /\ \E ok \in BOOLEAN :
          IF ok THEN ocrPc' = "getDocument" /\ UNCHANGED ocrErr
                ELSE OcrRaise("initialize")
    /\ UNCHANGED <<worker, doc, numPages, pageNo, ocrText>>
    /\ OcrKeep
    /\ UNCHANGED normVars

\* PDF.getDocument(...).promise: before the try block as well.
OcrGetDocument ==
    /\ ocrPc = "getDocument"
    /\ \/ \E n \in 0..MaxPages :
             /\ doc' = "open"
             /\ numPages' = n
             /\ pageNo' = 1
             /\ ocrPc' = "loop"
             /\ UNCHANGED ocrErr
       \/ /\ OcrRaise("getDocument")
          /\ UNCHANGED <<doc, numPages, pageNo>>
    /\ UNCHANGED <<worker, ocrText>>
    /\ OcrKeep
    /\ UNCHANGED normVars

\* The loop test i <= doc.numPages, then getPage and page.render.
OcrRenderPage ==
    /\ ocrPc = "loop"
    /\ IF pageNo <= numPages
       THEN \E ok \in BOOLEAN :
               IF ok THEN ocrPc' = "recognize" /\ UNCHANGED ocrErr
                     ELSE ocrPc' = "finally" /\ ocrErr' = "render"
       ELSE ocrPc' = "finally" /\ UNCHANGED ocrErr
    /\ UNCHANGED <<worker, doc, numPages, pageNo, ocrText>>
    /\ OcrKeep
    /\ UNCHANGED normVars

\* worker.recognize(png); text += (res?.data?.text || "") + "\n".
OcrRecognize ==
    /\ ocrPc = "recognize"
    /\ \/ \E n \in PageYields :
             /\ ocrText' = ocrText + n
             /\ pageNo' = pageNo + 1
             /\ ocrPc' = "loop"
             /\ UNCHANGED ocrErr
       \/ /\ ocrPc' = "finally"
          /\ ocrErr' = "recognize"
          /\ UNCHANGED <<ocrText, pageNo>>
    /\ UNCHANGED <<worker, doc, numPages>>
    /\ OcrKeep
    /\ UNCHANGED normVars

\* finally: await doc.destroy().  When it rejects, the rest of the finally
\* block is skipped and its error replaces the pending one.
OcrDestroy ==
    /\ ocrPc = "finally"
    /\ \E ok \in BOOLEAN :
          IF ok THEN /\ doc' = "destroyed"
                     /\ ocrPc' = "terminate"
                     /\ UNCHANGED ocrErr
                ELSE /\ OcrRaise("destroy")
                     /\ UNCHANGED doc
    /\ UNCHANGED <<worker, numPages, pageNo, ocrText>>
    /\ OcrKeep
    /\ UNCHANGED normVars

\* finally: await worker.terminate?.(), then return text.trim() or rethrow.
OcrTerminate ==
    /\ ocrPc = "terminate"
    /\ worker' = "terminated"
    /\ ocrPc' = IF ocrErr = "" THEN "returned" ELSE "raised"
    /\ UNCHANGED <<ocrErr, doc, numPages, pageNo, ocrText>>
    /\ OcrKeep
    /\ UNCHANGED normVars

\* 3) OCR: what parsePdfSmart does with the outcome of ocrWithTesseract.
Stage3 ==
    /\ pc = "ocr"
    /\ ocrPc \in {"returned", "raised"}
    /\ IF ocrPc = "returned"
       THEN /\ warnings' = IF ocrText > 0 THEN Append(warnings, OcrUsed)
                                          ELSE warnings
            /\ result' = Ok(Text("ocr", ocrText), warnings', "ocr")
            /\ pc' = "returned"
       ELSE /\ warnings' = Append(warnings, Warning("OCR failed", ocrErr))
            /\ result' = Thrown(warnings')
            /\ pc' = "thrown"
    /\ UNCHANGED <<s1, s2, response>>
    /\ UNCHANGED ocrVars
    /\ UNCHANGED normVars

\* pdf.text && pdf.text.trim()
HasText(t) == t.nonws > 0

\* (pdf.warnings ?? []).join(" | ") || "unknown"
Details(ws) == IF Join(ws) = <<>> THEN <<"unknown">> ELSE Join(ws)

\* The route's pdf branch without the test of pdf.text
RoutePost_Unchecked ==
    /\ pc \in {"returned", "thrown"}
    /\ response' = IF pc = "returned"
                   THEN [status |-> 200, error |-> "", details |-> <<>>,
                         body |-> result]
                   ELSE [status |-> 500, error |-> "Failed to parse statement",
                         details |-> result.message, body |-> result]
    /\ pc' = "responded"
    /\ UNCHANGED <<warnings, s1, s2, result>>
    /\ UNCHANGED ocrVars
    /\ UNCHANGED normVars

\* The route's pdf branch: the normalized statement of the text with the
\* strategy and the warnings, the 422 when there is no text, or the catch
\* block's 500.
RoutePost ==
    /\ pc \in {"returned", "thrown"}
    /\ response' = IF pc = "returned"
                   THEN IF HasText(result.text)
                        THEN [status |-> 200, error |-> "", details |-> <<>>,
                              body |-> result]
                        ELSE [status |-> 422, error |-> "No extractable text",
                              details |-> Details(result.warnings),
                              body |-> NoResult]
                   ELSE [status |-> 500, error |-> "Failed to parse statement",
                         details |-> result.message, body |-> NoResult]
    /\ pc' = "responded"
    /\ UNCHANGED <<warnings, s1, s2, result>>
    /\ UNCHANGED ocrVars
    /\ UNCHANGED normVars

NextPdf ==
    \/ Stage1
    \/ Stage2
    \/ OcrLoadPdfJs
    \/ OcrImportCanvas
    \/ OcrCreateWorker
    \/ OcrInitialize
    \/ OcrGetDocument
    \/ OcrRenderPage
    \/ OcrRecognize
    \/ OcrDestroy
    \/ OcrTerminate
    \/ Stage3
    \/ RoutePost

(***************************************************************************)
(* Claims about the cascade, checked under SpecPdf.                        *)
(***************************************************************************)

LowText(o) == o.kind = "text" /\ o.text.nonws < MinYield
SomeText(o) == o.kind = "text" /\ o.text.nonws > 0
Contains(ws, w) == \E i \in 1..Len(ws) : ws[i] = w

\* C1: when stage 1 returned fewer than 50 non-whitespace characters and
\* stage 2 returned at least 50, parsePdfSmart returns stage 2's text with
\* strategy 'pdfjs-dist' and a warnings list holding the stage-1 low-yield
\* notice.
C1_Stage2Accepted ==
    (LowText(s1) /\ s2.kind = "text" /\ s2.text.nonws >= MinYield)
        => /\ result.kind = "ok"
           /\ result.text = s2.text
           /\ result.text.src = "pdfjs-dist"
           /\ result.strategy = "pdfjs-dist"
           /\ Contains(result.warnings, LowPdfParse)

\* Stage 1 gave 10 characters, stage 2 gave 200 and the call has returned.
C1_Witness ==
    /\ pc = "returned"
    /\ s1 = Returned(Text("pdf-parse", 10))
    /\ s2 = Returned(Text("pdfjs-dist", 200))

\* C2: once createWorker has returned a worker, terminate has been called
\* on it whenever ocrWithTesseract has returned or thrown.
C2_WorkerReleased ==
    (ocrPc \in {"returned", "raised"} /\ worker # "none")
        => worker = "terminated"

\* C3: when some stage produced non-empty text, the route answers with the
\* extraction result and its warnings, not with an error, whatever the later
\* stages did.
C3_AnswerWhenAnyText ==
    (pc = "responded" /\ (SomeText(s1) \/ SomeText(s2)))
        => /\ response.status = 200
           /\ response.body.kind = "ok"

\* C4: parsePdfSmart throws its aggregate error only when all three stages
\* raised.
C4_FatalOnlyWhenAllRaised ==
    result.kind = "error"
        => /\ s1.kind = "raised"
           /\ s2.kind = "raised"
           /\ ocrPc = "raised"

InitNormIdle ==
    /\ npc = "idle"
    /\ fn = "none"
    /\ raw = <<>>
    /\ tieUp = FALSE
    /\ out = <<>>
    /\ again = <<>>

\* A PDF upload: the cascade starts, no normaliser call is modelled.
InitCascade == InitPdf /\ InitNormIdle

SpecPdf == InitCascade /\ [][NextPdf]_vars

(***************************************************************************)
(* -------------------------- lib/normalize.ts --------------------------- *)
(* Strings are sequences of characters.                                    *)
(***************************************************************************)

Digit == {"0", "1", "2", "3", "4", "5", "6", "7", "8", "9"}
UpperSeq == <<"A", "B", "C", "D", "E", "F", "G", "H", "I", "J", "K", "L", "M",
              "N", "O", "P", "Q", "R", "S", "T", "U", "V", "W", "X", "Y", "Z">>
LowerSeq == <<"a", "b", "c", "d", "e", "f", "g", "h", "i", "j", "k", "l", "m",
              "n", "o", "p", "q", "r", "s", "t", "u", "v", "w", "x", "y", "z">>
Upper == {UpperSeq[i] : i \in 1..Len(UpperSeq)}
Lower == {LowerSeq[i] : i \in 1..Len(LowerSeq)}
Letter == Upper \cup Lower
AlphaNum == Letter \cup Digit
\* The characters of the modelled alphabet that \s and trim() take as space.
Space == {" ", "\t", "\n", "\r"}
\* The line terminators, which `.` does not match.
LineEnd == {"\n", "\r"}

Unknown == <<"u", "n", "k", "n", "o", "w", "n">>

AllIn(s, set) == \A i \in 1..Len(s) : s[i] \in set

\* The number of leading (trailing) characters of s that are in set.
Lead(s, set) ==
    IF AllIn(s, set) THEN Len(s)
    ELSE (CHOOSE i \in 1..Len(s) :
             s[i] \notin set /\ \A j \in 1..(i - 1) : s[j] \in set) - 1
Trail(s, set) ==
    IF AllIn(s, set) THEN Len(s)
    ELSE Len(s) - (CHOOSE i \in 1..Len(s) :
             s[i] \notin set /\ \A j \in (i + 1)..Len(s) : s[j] \in set)

\* String.prototype.trim
Trim(s) ==
    IF AllIn(s, Space) THEN <<>>
    ELSE SubSeq(s, Lead(s, Space) + 1, Len(s) - Trail(s, Space))

Keep(s, set) == SelectSeq(s, LAMBDA c : c \in set)
Drop(s, set) == SelectSeq(s, LAMBDA c : c \notin set)

IndexIn(c, seq) == CHOOSE i \in 1..Len(seq) : seq[i] = c
\* toUpperCase / toLowerCase, character by character.
ToUpper(s) == [i \in 1..Len(s) |->
                 IF s[i] \in Lower THEN UpperSeq[IndexIn(s[i], LowerSeq)] ELSE s[i]]
ToLower(s) == [i \in 1..Len(s) |->
                 IF s[i] \in Upper THEN LowerSeq[IndexIn(s[i], UpperSeq)] ELSE s[i]]

\* String.prototype.includes
Includes(s, sub) ==
    \E i \in 0..(Len(s) - Len(sub)) : SubSeq(s, i + 1, i + Len(sub)) = sub

DigitVal(c) == IndexIn(c, <<"0", "1", "2", "3", "4", "5", "6", "7", "8", "9">>) - 1

\* Number(ds) for a string of digits.
RECURSIVE NumberOf(_)
NumberOf(ds) ==
    IF ds = <<>> THEN 0
    ELSE 10 * NumberOf(SubSeq(ds, 1, Len(ds) - 1)) + DigitVal(ds[Len(ds)])

\* The fields of t between the characters of seps.
RECURSIVE SplitOn(_, _)
SplitOn(t, seps) ==
    LET k == Lead(t, {t[i] : i \in 1..Len(t)} \ seps)
    IN  IF k = Len(t) THEN <<t>>
        ELSE <<SubSeq(t, 1, k)>> \o SplitOn(SubSeq(t, k + 2, Len(t)), seps)

\* \d{lo,hi}, anchored on both sides
Digits(s, lo, hi) == Len(s) >= lo /\ Len(s) <= hi /\ AllIn(s, Digit)

\* The separator class [\/\-.] of the numeric date patterns.
DateSep == {"/", "-", "."}

\* mYMD = /^(\d{4})[\/\-.](\d{1,2})[\/\-.](\d{1,2})$/: digits are no
\* separators, so the pattern matches exactly when t splits into three
\* fields of the right lengths.
mYMD(t) ==
    LET f == SplitOn(t, DateSep)
    IN  Len(f) = 3 /\ Digits(f[1], 4, 4) /\ Digits(f[2], 1, 2) /\ Digits(f[3], 1, 2)

\* mDMY = mMDY = /^(\d{1,2})[\/\-.](\d{1,2})[\/\-.](\d{2,4})$/
mDMY(t) ==
    LET f == SplitOn(t, DateSep)
    IN  Len(f) = 3 /\ Digits(f[1], 1, 2) /\ Digits(f[2], 1, 2) /\ Digits(f[3], 2, 4)
mMDY(t) == mDMY(t)

\* One step of a left-to-right match: the longest prefix of t in set, and
\* what follows it.  The classes of the two named patterns are disjoint, so
\* this is the only way the pattern can match.
Take(t, set) == [tok |-> SubSeq(t, 1, Lead(t, set)),
                 rest |-> SubSeq(t, Lead(t, set) + 1, Len(t))]

\* named1 = /^([A-Za-z]{3,9})\s+(\d{1,2}),\s*(\d{4})$/   "Aug 31, 2025"
named1(t) ==
    LET mon == Take(t, Letter)
        sp1 == Take(mon.rest, Space)
        d   == Take(sp1.rest, Digit)
        sp2 == Take(Tail(d.rest), Space)
    IN  [ok  |-> /\ Len(mon.tok) >= 3 /\ Len(mon.tok) <= 9
                 /\ Len(sp1.tok) >= 1
                 /\ Digits(d.tok, 1, 2)
                 /\ d.rest # <<>> /\ Head(d.rest) = ","
                 /\ Digits(sp2.rest, 4, 4),
         mon |-> mon.tok, d |-> d.tok,
         y   |-> IF d.rest = <<>> THEN <<>> ELSE sp2.rest]

\* named2 = /^(\d{1,2})\s+([A-Za-z]{3,9})\s+(\d{4})$/    "31 Aug 2025"
named2(t) ==
    LET d   == Take(t, Digit)
        sp1 == Take(d.rest, Space)
        mon == Take(sp1.rest, Letter)
        sp2 == Take(mon.rest, Space)
    IN  [ok  |-> /\ Digits(d.tok, 1, 2)
                 /\ Len(sp1.tok) >= 1
                 /\ Len(mon.tok) >= 3 /\ Len(mon.tok) <= 9
                 /\ Len(sp2.tok) >= 1
                 /\ Digits(sp2.rest, 4, 4),
         mon |-> mon.tok, d |-> d.tok, y |-> sp2.rest]

\* const months = { jan:"01", ..., sep:"09", sept:"09", ..., dec:"12" }
months ==
    << [name |-> <<"j", "a", "n">>, mm |-> <<"0", "1">>],
       [name |-> <<"f", "e", "b">>, mm |-> <<"0", "2">>],
       [name |-> <<"m", "a", "r">>, mm |-> <<"0", "3">>],
       [name |-> <<"a", "p", "r">>, mm |-> <<"0", "4">>],
       [name |-> <<"m", "a", "y">>, mm |-> <<"0", "5">>],
       [name |-> <<"j", "u", "n">>, mm |-> <<"0", "6">>],
       [name |-> <<"j", "u", "l">>, mm |-> <<"0", "7">>],
       [name |-> <<"a", "u", "g">>, mm |-> <<"0", "8">>],
       [name |-> <<"s", "e", "p">>, mm |-> <<"0", "9">>],
       [name |-> <<"s", "e", "p", "t">>, mm |-> <<"0", "9">>],
       [name |-> <<"o", "c", "t">>, mm |-> <<"1", "0">>],
       [name |-> <<"n", "o", "v">>, mm |-> <<"1", "1">>],
       [name |-> <<"d", "e", "c">>, mm |-> <<"1", "2">>] >>

\* A lookup by the first three letters, which knows the full month names
mm_ByPrefix(name) ==
    IF \E i \in 1..Len(months) : months[i].name = ToLower(SubSeq(name, 1, 3))
    THEN months[CHOOSE i \in 1..Len(months) :
                    months[i].name = ToLower(SubSeq(name, 1, 3))].mm
    ELSE <<"0", "1">>
\* const mm = (name) => months[name.toLowerCase()] ?? "01"
mm(name) ==
    IF \E i \in 1..Len(months) : months[i].name = ToLower(name)
    THEN months[CHOOSE i \in 1..Len(months) : months[i].name = ToLower(name)].mm
    ELSE <<"0", "1">>

\* s.padStart(2, "0")
padStart2(s) ==
    IF Len(s) >= 2 THEN s
    ELSE IF Len(s) = 1 THEN <<"0">> \o s
    ELSE <<"0", "0">>

\* `${y}-${m}-${d}`
IsoOf(y, m, d) == y \o <<"-">> \o m \o <<"-">> \o d

\* const Y = y.length === 2 ? `20${y}` : y
ExpandYear(y) == IF Len(y) = 2 THEN <<"2", "0">> \o y ELSE y

\* The version of toISODate that reads every numeric triple day first.
toISODate_DayFirst(rawDate) ==
    LET t == Trim(rawDate)
        f == SplitOn(t, DateSep)
    IN  IF t = <<>> THEN Unknown
        ELSE IF mYMD(t) THEN IsoOf(f[1], padStart2(f[2]), padStart2(f[3]))
        ELSE IF mDMY(t)
             THEN IsoOf(ExpandYear(f[3]), padStart2(f[2]), padStart2(f[1]))
        ELSE IF named1(t).ok
             THEN IsoOf(named1(t).y, mm(named1(t).mon), padStart2(named1(t).d))
        ELSE IF named2(t).ok
             THEN IsoOf(named2(t).y, mm(named2(t).mon), padStart2(named2(t).d))
        ELSE Unknown

toISODate(rawDate) ==
    LET t == Trim(rawDate)
        f == SplitOn(t, DateSep)
    IN  IF t = <<>> THEN Unknown
        ELSE IF mYMD(t) THEN IsoOf(f[1], padStart2(f[2]), padStart2(f[3]))
        ELSE IF mDMY(t) /\ NumberOf(f[1]) > 12
             THEN IsoOf(ExpandYear(f[3]), padStart2(f[2]), padStart2(f[1]))
        ELSE IF mMDY(t) /\ (NumberOf(f[1]) > 12 \/ NumberOf(f[2]) <= 12)
             THEN IsoOf(ExpandYear(f[3]), padStart2(f[1]), padStart2(f[2]))
        ELSE IF named1(t).ok
             THEN IsoOf(named1(t).y, mm(named1(t).mon), padStart2(named1(t).d))
        ELSE IF named2(t).ok
             THEN IsoOf(named2(t).y, mm(named2(t).mon), padStart2(named2(t).d))
        ELSE Unknown

\* const SYMBOL_TO_ISO, in the order of Object.keys.
USD == <<"U", "S", "D">>
PHP == <<"P", "H", "P">>
SYMBOL_TO_ISO ==
    << [key |-> <<"$">>, iso |-> USD],
       [key |-> <<"U+20B1">>, iso |-> PHP],
       [key |-> PHP, iso |-> PHP],
       [key |-> USD, iso |-> USD],
       [key |-> <<"U+20AC">>, iso |-> <<"E", "U", "R">>],
       [key |-> <<"U+00A5">>, iso |-> <<"J", "P", "Y">>],
       [key |-> <<"U+00A3">>, iso |-> <<"G", "B", "P">>] >>

\* /^[A-Z]{3}$/
IsIsoCode(s) == Len(s) = 3 /\ AllIn(s, Upper)

\* The substring scan of normalizeCurrency taken in the order of the
\* characters of s, not of the table.
ScanSymbols_ByPosition(s) ==
    LET At(i) == {k \in 1..Len(SYMBOL_TO_ISO) :
                    /\ i + Len(SYMBOL_TO_ISO[k].key) - 1 <= Len(s)
                    /\ SubSeq(s, i, i + Len(SYMBOL_TO_ISO[k].key) - 1)
                          = SYMBOL_TO_ISO[k].key}
        hits == {i \in 1..Len(s) : At(i) # {}}
    IN  IF hits = {} THEN Unknown
        ELSE LET i == CHOOSE x \in hits : \A y \in hits : x <= y
             IN  SYMBOL_TO_ISO[CHOOSE k \in At(i) : \A j \in At(i) : k <= j].iso

\* for (const sym of Object.keys(SYMBOL_TO_ISO)) if (s.includes(sym)) return ...
\* and the final return "unknown".
ScanSymbols(s) ==
    LET hits == {k \in 1..Len(SYMBOL_TO_ISO) : Includes(s, SYMBOL_TO_ISO[k].key)}
    IN  IF hits = {} THEN Unknown
        ELSE SYMBOL_TO_ISO[CHOOSE k \in hits : \A j \in hits : k <= j].iso

normalizeCurrency(input) ==
    LET s == ToUpper(Trim(input))
        exact == {k \in 1..Len(SYMBOL_TO_ISO) : SYMBOL_TO_ISO[k].key = s}
    IN  IF s = <<>> THEN Unknown
        ELSE IF exact # {} THEN SYMBOL_TO_ISO[CHOOSE k \in exact : TRUE].iso
        ELSE IF IsIsoCode(s) THEN s
        ELSE ScanSymbols(s)

\* s.replace(/[^A-Za-z0-9 ]+/g, "").replace(/\s+/g, ""), of the trimmed raw
cleanBankName(rawName) ==
    LET keep == Drop(Keep(Trim(rawName), AlphaNum \cup {" "}), Space)
    IN  IF keep = <<>> THEN Unknown ELSE keep

\* s.replace(/[^A-Za-z0-9]/g, "")
cleanIdentifier(rawId) ==
    LET o == Keep(rawId, AlphaNum)
    IN  IF o = <<>> THEN Unknown ELSE o

(***************************************************************************)
(* normalizeAmount.  A number is written [neg, ip, fp]: its sign and the   *)
(* decimal digits before and after the point.  The model is exact for      *)
(* literals of at most 15 significant digits, which a double holds up to    *)
(* the direction in which it misses a decimal tie (tieUp).                 *)
(***************************************************************************)

Zero == [neg |-> FALSE, ip |-> <<>>, fp |-> <<>>]
ZeroAmount == <<"0", ".", "0", "0">>

StripZeros(ds) == SubSeq(ds, Lead(ds, {"0"}) + 1, Len(ds))
StripTrailingZeros(ds) == SubSeq(ds, 1, Len(ds) - Trail(ds, {"0"}))
IsZero(n) == AllIn(n.ip, {"0"}) /\ AllIn(n.fp, {"0"})

\* Number(s) for s made of digits, dots and minus signs: NaN unless s is an
\* optional sign and a decimal literal with at least one digit.
NumberLiteral(s) ==
    LET neg  == s # <<>> /\ Head(s) = "-"
        body == IF neg THEN Tail(s) ELSE s
        f    == SplitOn(body, {"."})
    IN  [nan |-> ~ (/\ AllIn(body, Digit \cup {"."})
                    /\ Len(f) <= 2
                    /\ Keep(body, Digit) # <<>>),
         neg |-> neg,
         ip  |-> f[1],
         fp  |-> IF Len(f) >= 2 THEN f[2] ELSE <<>>]

RECURSIVE Incr(_)
\* The digit string ds plus one.
Incr(ds) ==
    IF ds = <<>> THEN <<"1">>
    ELSE IF ds[Len(ds)] = "9" THEN Incr(SubSeq(ds, 1, Len(ds) - 1)) \o <<"0">>
    ELSE SubSeq(ds, 1, Len(ds) - 1)
            \o << <<"1", "2", "3", "4", "5", "6", "7", "8", "9">>[DigitVal(ds[Len(ds)]) + 1] >>

RECURSIVE NatDigits(_)
NatDigits(n) ==
    IF n < 10 THEN << <<"0", "1", "2", "3", "4", "5", "6", "7", "8", "9">>[n + 1] >>
    ELSE NatDigits(n \div 10) \o NatDigits(n % 10)

\* Whether the digits dropped after the second decimal round the cents up.
RoundsUp(rest, tie) ==
    /\ rest # <<>>
    /\ \/ DigitVal(rest[1]) > 5
       \/ rest[1] = "5" /\ ~ AllIn(Tail(rest), {"0"})
       \/ rest[1] = "5" /\ AllIn(Tail(rest), {"0"}) /\ tie

\* Number::toString of a value of 10^21 or more: d[.ddd]e+NN
Exponential(ip, fp) ==
    LET m == StripTrailingZeros(ip \o fp)
    IN  <<m[1]>> \o (IF Len(m) > 1 THEN <<".">> \o Tail(m) ELSE <<>>)
           \o <<"e", "+">> \o NatDigits(Len(ip) - 1)

\* The digit count from which toFixed gives up fixed notation (x >= 10^21).
ExpDigits == 22

\* Number.prototype.toFixed(2): the sign of x < 0, then the cents nearest
\* to x; Number::toString when x >= 10^21.
toFixed2(n, tie) ==
    LET ip    == StripZeros(n.ip)
        rest  == SubSeq(n.fp, 3, Len(n.fp))
        f2    == SubSeq(n.fp \o <<"0", "0">>, 1, 2)
        cents == IF RoundsUp(rest, tie) THEN Incr(ip \o f2) ELSE ip \o f2
        whole == SubSeq(cents, 1, Len(cents) - 2)
        sign  == IF n.neg /\ ~ IsZero(n) THEN <<"-">> ELSE <<>>
    IN  IF Len(ip) >= ExpDigits THEN sign \o Exponential(ip, n.fp)
        ELSE sign \o (IF whole = <<>> THEN <<"0">> ELSE whole)
                  \o <<".">> \o SubSeq(cents, Len(cents) - 1, Len(cents))

\* const parenNeg = /^\(.*\)$/.test(s)
parenNeg(s) ==
    /\ Len(s) >= 2
    /\ s[1] = "(" /\ s[Len(s)] = ")"
    /\ \A i \in 2..(Len(s) - 1) : s[i] \notin LineEnd

normalizeAmount(rawAmount, tie) ==
    LET t   == Trim(rawAmount)
        s   == Keep(Drop(t, {"(", ")", ","}), Digit \cup {".", "-"})
        lit == NumberLiteral(s)
        n   == IF lit.nan THEN Zero ELSE [neg |-> lit.neg, ip |-> lit.ip, fp |-> lit.fp]
    IN  IF t = <<>> THEN ZeroAmount
        ELSE IF s = <<>> \/ s = <<"-">> \/ s = <<".">> THEN ZeroAmount
        ELSE toFixed2(IF parenNeg(t) THEN [n EXCEPT !.neg = TRUE] ELSE n, tie)

(***************************************************************************)
(* Calls of the normalisers: the arguments are drawn from the sets below,  *)
(* each normaliser is applied to its argument and then to its own result.  *)
(***************************************************************************)

\* Longest currency string and longest identifier or bank name drawn.
MaxCurLen == 4
MaxIdLen == 3

StringsOver(alphabet, maxLen) ==
    UNION {[1..n -> alphabet] : n \in 0..maxLen}

\* Components of numeric dates: one to five digits, values on both sides of
\* 12, with and without a leading zero.
NumTok ==
    { <<>>, <<"0">>, <<"7">>, <<"0", "7">>, <<"1", "2">>, <<"1", "3">>,
      <<"3", "1">>, <<"2", "5">>, <<"1", "2", "3">>, <<"2", "0", "2", "5">>,
      <<"2", "0", "2", "5", "1">> }
NumericDates ==
    {a \o <<p>> \o b \o <<q>> \o c :
        a \in NumTok, b \in NumTok, c \in NumTok, p \in DateSep, q \in DateSep}

MonthWords ==
    { <<"A", "u", "g">>, <<"a", "u", "g">>, <<"S", "E", "P", "T">>,
      <<"A", "u", "g", "u", "s", "t">>, <<"X", "y", "z">>, <<"A", "u">>,
      <<"S", "e", "p", "t", "e", "m", "b", "e", "r", "x">> }
Gaps == { <<>>, <<" ">>, <<" ", "\t">> }
NamedDates ==
    {w \o g \o d \o <<",">> \o h \o y :
        w \in MonthWords, g \in Gaps, h \in Gaps,
        d \in {<<"3">>, <<"3", "1">>, <<"1", "2", "3">>},
        y \in {<<"2", "0", "2", "5">>, <<"2", "5">>}}
    \cup
    {d \o g \o w \o h \o y :
        w \in MonthWords, g \in Gaps, h \in Gaps,
        d \in {<<"3">>, <<"3", "1">>, <<"1", "2", "3">>},
        y \in {<<"2", "0", "2", "5">>, <<"2", "5">>}}
OtherDates ==
    { <<>>, <<" ">>, Unknown, <<"3", "1">>, <<"3", "1", "/", "0", "7">>,
      <<" ", "0", "7", "/", "3", "1", "/", "2", "0", "2", "5", "\t">>,
      <<"3", "1", "/", "0", "7", "/", "2", "0", "2", "5", "x">>,
      <<"0", "7", "/", "3", "1", "/", "2", "0", "2", "5", "/", "1">> }
DateInputs == NumericDates \cup NamedDates \cup OtherDates

\* 10^21, the least value toFixed prints in exponential notation.
Big == <<"1">> \o [i \in 1..(ExpDigits - 1) |-> "0"]
AmtPrefix ==
    { <<>>, <<"-">>, <<"(">>, <<"$">>, <<"-", "$">>, <<"(", "-">>, <<" ">> }
AmtInt ==
    { <<>>, <<"0">>, <<"7">>, <<"9", "9">>, <<"0", "0", "7">>,
      <<"1", ",", "2", "3", "4">> }
AmtFrac ==
    { <<>>, <<".">>, <<".", "5">>, <<".", "0", "0">>, <<".", "0", "0", "1">>,
      <<".", "0", "0", "5">>, <<".", "9", "9", "5">>, <<".", "9", "9", "9">>,
      <<".", "1", ".", "2">> }
AmtSuffix ==
    { <<>>, <<")">>, <<" ">>, <<"-">>, <<"U", "S", "D">>, <<" ", ")">> }
AmountInputs ==
    {p \o i \o f \o x :
        p \in AmtPrefix, i \in AmtInt, f \in AmtFrac, x \in AmtSuffix}
    \cup
    {p \o Big \o z \o x :
        p \in AmtPrefix, z \in {<<>>, <<"0">>, <<".", "0", "0">>},
        x \in {<<>>, <<")">>}}

CurAlphabet == {"$", "U+20B1", "U+20AC", "P", "H", "p", " ", "!"}
CurrencyInputs == StringsOver(CurAlphabet, MaxCurLen) \cup {USD, Unknown}

IdAlphabet == {"A", "b", "1", " ", "-", "\t"}
IdInputs == StringsOver(IdAlphabet, MaxIdLen) \cup {Unknown}

PdfIdle ==
    /\ pc = "idle"
    /\ warnings = <<>>
    /\ s1 = NoOutcome
    /\ s2 = NoOutcome
    /\ result = NoResult
    /\ response = NoResponse
    /\ ocrPc = "idle"
    /\ ocrErr = ""
    /\ worker = "none"
    /\ doc = "none"
    /\ numPages = 0
    /\ pageNo = 0
    /\ ocrText = 0

InitNormalize ==
    /\ PdfIdle
    /\ npc = "call"
    /\ \/ fn = "toISODate" /\ raw \in DateInputs /\ tieUp = FALSE
       \/ fn = "normalizeAmount" /\ raw \in AmountInputs /\ tieUp \in BOOLEAN
       \/ fn = "normalizeCurrency" /\ raw \in CurrencyInputs /\ tieUp = FALSE
       \/ fn = "cleanIdentifier" /\ raw \in IdInputs /\ tieUp = FALSE
       \/ fn = "cleanBankName" /\ raw \in IdInputs /\ tieUp = FALSE
    /\ out = <<>>
    /\ again = <<>>

\* The call of a normaliser whose result is v: on the argument first, then
\* on the field it produced.
Normalised(v) ==
    /\ npc \in {"call", "done"}
    /\ IF npc = "call"
       THEN out' = v /\ npc' = "done" /\ UNCHANGED again
       ELSE again' = v /\ npc' = "redone" /\ UNCHANGED out
    /\ UNCHANGED <<fn, raw, tieUp>>
    /\ UNCHANGED <<pc, warnings, s1, s2, result, response>>
    /\ UNCHANGED ocrVars

Arg == IF npc = "call" THEN raw ELSE out

CallToISODate ==
    fn = "toISODate" /\ Normalised(toISODate(Arg))
CallNormalizeAmount ==
    fn = "normalizeAmount" /\ Normalised(normalizeAmount(Arg, tieUp))
CallNormalizeCurrency ==
    fn = "normalizeCurrency" /\ Normalised(normalizeCurrency(Arg))
CallCleanIdentifier ==
    fn = "cleanIdentifier" /\ Normalised(cleanIdentifier(Arg))
CallCleanBankName ==
    fn = "cleanBankName" /\ Normalised(cleanBankName(Arg))

NextNormalize ==
    \/ CallToISODate
    \/ CallNormalizeAmount
    \/ CallNormalizeCurrency
    \/ CallCleanIdentifier
    \/ CallCleanBankName

SpecNormalize == InitNormalize /\ [][NextNormalize]_vars

(***************************************************************************)
(* Money arithmetic of lib/normalize.ts (amountToNumber, sumAmounts,       *)
(* equalsMoney).  The code computes in IEEE-754 doubles.  A natural number *)
(* is written in base 10^4, most significant limb first and without        *)
(* leading zero limbs (<<>> is 0); a double is [neg, m, e], the number     *)
(* (-1)^neg * m * 2^e with m a natural number of at most 53 bits.          *)
(***************************************************************************)

\* The base of the limbs and its number of decimal digits.
Base == 10000
LimbDigits == 4

\* TLC evaluates definitions on demand, the whole chain of a computation at
\* once.  Evaluated(v) makes it evaluate v on the spot, so that a long
\* computation proceeds in the order of the code's statements.
Evaluated(v) == v = v

DigitSeq == <<"0", "1", "2", "3", "4", "5", "6", "7", "8", "9">>
DigitOf(n) == DigitSeq[n + 1]
Last(a) == a[Len(a)]
Zeros(k) == [i \in 1..k |-> "0"]
Min(a, b) == IF a < b THEN a ELSE b
Max(a, b) == IF a > b THEN a ELSE b

RECURSIVE Pointed(_, _)
RECURSIVE Pow2(_)
Pow2(k) == IF k = 0 THEN 1 ELSE 2 * Pow2(k - 1)
RECURSIVE Pow10(_)
Pow10(k) == IF k = 0 THEN 1 ELSE 10 * Pow10(k - 1)

\* a without its leading zero limbs
StripLimbs(a) ==
    IF \A i \in 1..Len(a) : a[i] = 0 THEN <<>>
    ELSE SubSeq(a, CHOOSE i \in 1..Len(a) :
                       a[i] # 0 /\ \A j \in 1..(i - 1) : a[j] = 0, Len(a))

\* From decimal digits to limbs and back.
LimbsOf(d, n) ==
    [i \in 1..n |->
        NumberOf(SubSeq(Zeros(LimbDigits * n - Len(d)) \o d,
                        LimbDigits * (i - 1) + 1, LimbDigits * i))]
ToLimbs(ds) ==
    LimbsOf(StripZeros(ds), (Len(StripZeros(ds)) + LimbDigits - 1) \div LimbDigits)
FromLimbs(a) ==
    StripZeros([j \in 1..(LimbDigits * Len(a)) |->
        DigitOf((a[(j - 1) \div LimbDigits + 1]
                    \div Pow10(LimbDigits - 1 - ((j - 1) % LimbDigits))) % 10)])

One == <<1>>

\* The i-th of the n limbs of a, a written with leading zero limbs.
Limb(a, n, i) == IF i > n - Len(a) THEN a[i - (n - Len(a))] ELSE 0

\* a + b in n limbs: the carry into a limb comes from the nearest lower limb
\* whose sum overflows, through limbs whose sums are all Base - 1.
SumLimb(a, b, n, i) == Limb(a, n, i) + Limb(b, n, i)
CarryInto(a, b, n, i) ==
    IF \E j \in (i + 1)..n :
          /\ SumLimb(a, b, n, j) >= Base
          /\ \A t \in (i + 1)..(j - 1) : SumLimb(a, b, n, t) = Base - 1
    THEN 1 ELSE 0
AddLimbs(a, b, n) ==
    StripLimbs([i \in 1..n |-> (SumLimb(a, b, n, i) + CarryInto(a, b, n, i)) % Base])
BigAdd(a, b) == AddLimbs(a, b, Max(Len(a), Len(b)) + 1)

\* a - b for a >= b: the borrow from a limb comes from the nearest lower limb
\* that falls short, through limbs that are level.
GapLimb(a, b, n, i) == Limb(a, n, i) - Limb(b, n, i)
BorrowFrom(a, b, n, i) ==
    IF \E j \in (i + 1)..n :
          /\ GapLimb(a, b, n, j) < 0
          /\ \A t \in (i + 1)..(j - 1) : GapLimb(a, b, n, t) = 0
    THEN 1 ELSE 0
BigSub(a, b) ==
    StripLimbs([i \in 1..Len(a) |->
        (GapLimb(a, b, Len(a), i) - BorrowFrom(a, b, Len(a), i) + Base) % Base])

BigLess(a, b) ==
    \/ Len(a) < Len(b)
    \/ /\ Len(a) = Len(b)
       /\ \E i \in 1..Len(a) :
             /\ a[i] < b[i]
             /\ \A j \in 1..(i - 1) : a[j] = b[j]

\* a * k for k <= 10^MaxFraction: each limb's product has three limbs, and the
\* three rows of limbs are added up.
MulSmall(a, k) ==
    BigAdd(BigAdd(StripLimbs([i \in 1..Len(a) |-> (a[i] * k) % Base]),
                  StripLimbs([i \in 1..Len(a) |-> ((a[i] * k) \div Base) % Base]
                                \o <<0>>)),
           StripLimbs([i \in 1..Len(a) |-> (a[i] * k) \div (Base * Base)]
                         \o <<0, 0>>))

RECURSIVE Residue(_, _, _)
\* The remainder by d of the first i limbs of a
Residue(a, d, i) ==
    IF i = 0 THEN 0 ELSE (Residue(a, d, i - 1) * Base + a[i]) % d

\* quotient and remainder of a by d, 0 < d <= 10^MaxFraction
DivSmall(a, d) ==
    [q |-> StripLimbs([i \in 1..Len(a) |->
                         (Residue(a, d, i - 1) * Base + a[i]) \div d]),
     r |-> Residue(a, d, Len(a))]

IsOdd(a) == a # <<>> /\ Last(a) % 2 = 1
BigIncr(a) == BigAdd(a, One)

\* The widest shift taken in one multiplication or division.
MaxShift == 16

RECURSIVE ShiftLeft(_, _)
\* a * 2^k
ShiftLeft(a, k) ==
    IF a = <<>> \/ k = 0 THEN a
    ELSE ShiftLeft(MulSmall(a, Pow2(Min(k, MaxShift))), k - Min(k, MaxShift))

RECURSIVE ShiftDown(_, _, _)
ShiftDown(a, k, lost) ==
    IF a = <<>> \/ k = 0 THEN [q |-> a, sticky |-> lost]
    ELSE ShiftDown(DivSmall(a, Pow2(Min(k, MaxShift))).q, k - Min(k, MaxShift),
                   lost \/ DivSmall(a, Pow2(Min(k, MaxShift))).r # 0)
\* floor(a / 2^k), and whether bits were lost
ShiftRight(a, k) == ShiftDown(a, k, FALSE)

\* 2^52 and 2^53: a double holds 53 significant bits.
P52 == <<4503, 5996, 2737, 496>>
P53 == <<9007, 1992, 5474, 992>>

Double(neg, m, e) == [neg |-> neg, m |-> m, e |-> e]
PlusZero == Double(FALSE, <<>>, 0)

\* The number of bits of m >= 2^53, a number of len decimal digits: len leaves
\* a few candidates, of which the one that shifts m into [2^52, 2^53) is taken.
BitsGiven(m, len) ==
    CHOOSE b \in Max(54, ((len - 1) * 3321928) \div 1000000 + 1)
                    ..((len * 3321928) \div 1000000 + 1) :
        /\ ~ BigLess(ShiftRight(m, b - 53).q, P52)
        /\ BigLess(ShiftRight(m, b - 53).q, P53)
BitLength(m) == BitsGiven(m, Len(FromLimbs(m)))

\* q, or q + 1 if the half bit dropped is set and either more was dropped or
\* q is odd (ties to even)
RoundHalf(neg, q, half, more, e) ==
    Double(neg, IF half /\ (more \/ IsOdd(q)) THEN BigIncr(q) ELSE q, e)
\* t is the number shifted to 54 bits, with what the shift lost.
RoundShifted(neg, t, e, sticky) ==
    RoundHalf(neg, DivSmall(t.q, 2).q, IsOdd(t.q), t.sticky \/ sticky, e)

\* The double nearest (ties to even) to m * 2^e, or, if sticky, to a number
\* strictly between m * 2^e and (m + 1) * 2^e; the latter for m >= 2^53 only.
RoundTo53(neg, m, e, sticky) ==
    IF BigLess(m, P53) THEN Double(neg, m, IF m = <<>> THEN 0 ELSE e)
    ELSE RoundShifted(neg, ShiftRight(m, BitLength(m) - 54),
                      e + BitLength(m) - 53, sticky)

RoundBits(neg, m, e) == RoundTo53(neg, m, e, FALSE)

\* Bits by which a quotient is extended before it is rounded.
GuardBits == 92

RoundQuotient(neg, p, e) == RoundTo53(neg, p.q, e, p.r # 0)
\* The double nearest to (n / d) * 2^e, d a small positive number.
RoundRatio(neg, n, d, e) ==
    RoundQuotient(neg, DivSmall(ShiftLeft(n, GuardBits), d), e - GuardBits)

\* The natural number m * 2^e of a double with e >= 0.
Whole(x) == ShiftLeft(x.m, x.e)

\* Whether two doubles are the same number (the sign of zero apart).
SameNumber(x, y) ==
    /\ ShiftLeft(x.m, x.e - Min(x.e, y.e)) = ShiftLeft(y.m, y.e - Min(x.e, y.e))
    /\ (x.m # <<>> => x.neg = y.neg)

\* x * 100 and x / 100
Times100(x) ==
    IF Evaluated(x) THEN RoundBits(x.neg, MulSmall(x.m, 100), x.e) ELSE x
Over100(x) ==
    IF Evaluated(x) THEN RoundRatio(x.neg, x.m, 100, x.e) ELSE x

\* t is floor(2|x|) with whether 2|x| has a fraction: floor(x + 0.5) is
\* floor((t + 1) / 2) for x >= 0 and -floor(ceil(2|x|) / 2) for x < 0.
RoundHalves(neg, t) ==
    IF neg
    THEN Double(TRUE, DivSmall(IF t.sticky THEN BigIncr(t.q) ELSE t.q, 2).q, 0)
    ELSE Double(FALSE, DivSmall(BigIncr(t.q), 2).q, 0)
\* Math.round(x) = floor(x + 0.5); Math.round of a number in [-0.5, 0) is -0.
MathRound(x) ==
    IF ~ Evaluated(x) \/ x.e >= 0 \/ x.m = <<>> THEN x
    ELSE RoundHalves(x.neg, ShiftRight(x.m, (0 - x.e) - 1))

\* The sum of two numbers whose magnitudes are a * 2^e and b * 2^e
PlusAligned(xneg, a, yneg, b, e) ==
    IF xneg = yneg THEN RoundBits(xneg, BigAdd(a, b), e)
    ELSE IF a = b THEN PlusZero
    ELSE IF BigLess(a, b) THEN RoundBits(yneg, BigSub(b, a), e)
    ELSE RoundBits(xneg, BigSub(a, b), e)
\* x + y
Plus(x, y) ==
    IF Evaluated(x) /\ Evaluated(y)
    THEN PlusAligned(x.neg, ShiftLeft(x.m, x.e - Min(x.e, y.e)),
                     y.neg, ShiftLeft(y.m, y.e - Min(x.e, y.e)), Min(x.e, y.e))
    ELSE x

\* The decimal digits v rounded to k significant digits.
RoundSig(v, k) ==
    IF Len(v) <= k THEN v
    ELSE (IF DigitVal(v[k + 1]) >= 5 THEN Incr(SubSeq(v, 1, k)) ELSE SubSeq(v, 1, k))
            \o Zeros(Len(v) - k)

\* Whether the first k significant digits of v read back as the double x
ReadsBack(v, k, x) ==
    SameNumber(RoundBits(FALSE, ToLimbs(RoundSig(v, k)), 0),
               Double(FALSE, x.m, x.e))
ShortestDigits(v, x) ==
    CHOOSE k \in 1..17 :
        ReadsBack(v, k, x) /\ \A j \in 1..(k - 1) : ~ ReadsBack(v, j, x)
ToStringOf(v, x) == Exponential(RoundSig(v, ShortestDigits(v, x)), <<>>)
\* Number::toString of a double of 10^21 or more: the fewest digits that
\* read back as the same double, in exponential notation.
ToStringLarge(x) == ToStringOf(FromLimbs(Whole(x)), x)

\* The digits of |x| * p, rounded half up to a whole number.
ScaledDigits(x, p) ==
    FromLimbs(IF x.e >= 0 THEN ShiftLeft(MulSmall(x.m, p), x.e)
              ELSE DivSmall(BigIncr(ShiftRight(MulSmall(x.m, p),
                                               (0 - x.e) - 1).q), 2).q)
\* The digits n with a point before the last k, after a digit at least.
Pointed(n, k) ==
    IF Len(n) <= k THEN Pointed(Zeros(k + 1 - Len(n)) \o n, k)
    ELSE SubSeq(n, 1, Len(n) - k) \o <<".">> \o SubSeq(n, Len(n) - k + 1, Len(n))

\* x.toFixed(k) of a double, 1 <= k <= MaxFraction
toFixed(x, k) ==
    IF ~ Evaluated(x) THEN <<>>
    ELSE (IF x.neg /\ x.m # <<>> THEN <<"-">> ELSE <<>>)
            \o (IF x.e >= 0 /\ Len(FromLimbs(Whole(x))) >= ExpDigits
                THEN ToStringLarge(x)
                ELSE Pointed(ScaledDigits(x, Pow10(k)), k))
FixedTwo(x) == toFixed(x, 2)

\* The longest fraction and the largest power of ten of a literal read.
MaxFraction == 5
MaxExponent == 30

NotANumber == [nan |-> TRUE, num |-> PlusZero]
Read(x) == [nan |-> FALSE, num |-> x]

\* The digits n with 10^scale
ReadScaled(neg, n, scale) ==
    IF scale > MaxExponent \/ scale < 0 - MaxFraction THEN NotANumber
    ELSE IF scale >= 0
         THEN Read(RoundBits(neg, ToLimbs(n \o Zeros(IF n = <<>> THEN 0 ELSE scale)), 0))
    ELSE Read(RoundRatio(neg, ToLimbs(n), Pow10(0 - scale), 0))
ReadDigits(neg, ip, fp, hasEx, exNeg, exDs) ==
    IF /\ AllIn(ip, Digit) /\ AllIn(fp, Digit)
       /\ ip \o fp # <<>>
       /\ hasEx => (exDs # <<>> /\ AllIn(exDs, Digit))
       /\ Len(StripZeros(exDs)) <= 2
    THEN ReadScaled(neg, StripZeros(ip \o fp),
                    (IF exNeg THEN 0 - NumberOf(exDs) ELSE NumberOf(exDs)) - Len(fp))
    ELSE NotANumber
ReadMantissa(neg, mant, hasEx, ex) ==
    IF Len(mant) > 2 THEN NotANumber
    ELSE ReadDigits(neg, mant[1], IF Len(mant) = 2 THEN mant[2] ELSE <<>>,
                    hasEx, ex # <<>> /\ Head(ex) = "-",
                    IF ex # <<>> /\ Head(ex) \in {"-", "+"} THEN Tail(ex) ELSE ex)
ReadParts(neg, parts) ==
    IF Len(parts) > 2 THEN NotANumber
    ELSE ReadMantissa(neg, SplitOn(parts[1], {"."}), Len(parts) = 2,
                      IF Len(parts) = 2 THEN parts[2] ELSE <<>>)
ReadSigned(t) ==
    IF t = <<>> THEN Read(PlusZero)
    ELSE ReadParts(Head(t) = "-",
                   SplitOn(IF Head(t) \in {"-", "+"} THEN Tail(t) ELSE t, {"e", "E"}))
\* Number(s): the StrDecimalLiteral grammar, an optional sign, digits with an
\* optional point and an optional exponent part; "" and blanks read as 0,
\* anything else as NaN.  (Infinity and the 0x, 0o, 0b forms are not read:
\* amountToNumber maps the first to 0 like NaN, and no amount drawn has the
\* others.)
NumberOfString(str) == ReadSigned(Trim(str))

\* Number.isFinite(n) ? Math.round(n * 100) / 100 : 0
RoundedToCents(lit) ==
    IF lit.nan THEN PlusZero ELSE Over100(MathRound(Times100(lit.num)))
\* amountToNumber(a): Number((a || "0").replace(/,/g, "")), rounded to cents
amountToNumber(a) ==
    RoundedToCents(NumberOfString(Drop(IF a = <<>> THEN <<"0">> ELSE a, {","})))

RECURSIVE SumCents(_, _)
\* vals.reduce((acc, v) => acc + Math.round(amountToNumber(v) * 100), acc)
SumCents(vals, acc) ==
    IF vals = <<>> \/ ~ Evaluated(acc) THEN acc
    ELSE SumCents(Tail(vals),
                  Plus(acc, MathRound(Times100(amountToNumber(Head(vals))))))

sumAmounts(vals) == FixedTwo(Over100(SumCents(vals, PlusZero)))

equalsMoney(a, b) == FixedTwo(amountToNumber(a)) = FixedTwo(amountToNumber(b))

(***************************************************************************)
(* Properties of the normalisers.                                          *)
(***************************************************************************)

\* The argument is a<sep>b<sep>Y: a and b of one or two digits, Y of four.
NumericTriple(t) ==
    LET f == SplitOn(t, DateSep)
    IN  Len(f) = 3 /\ Digits(f[1], 1, 2) /\ Digits(f[2], 1, 2) /\ Digits(f[3], 4, 4)

\* toISODate has returned its result for the argument raw.
DateDone == fn = "toISODate" /\ npc # "call"

\* \d{4}-\d{2}-\d{2}, anchored on both sides
IsoShape(s) ==
    /\ Len(s) = 10
    /\ \A i \in {1, 2, 3, 4, 6, 7, 9, 10} : s[i] \in Digit
    /\ s[5] = "-" /\ s[8] = "-"

\* ^-?\d+\.\d{2}$
AmountShape(s) ==
    LET body == IF s # <<>> /\ Head(s) = "-" THEN Tail(s) ELSE s
    IN  /\ Len(body) >= 4
        /\ body[Len(body) - 2] = "."
        /\ \A i \in 1..Len(body) : i # Len(body) - 2 => body[i] \in Digit

\* C5: toISODate of a numeric triple a<sep>b<sep>Y with a four-digit Y,
\* a <= 12 and b > 12 is Y-a-b, read as month-day-year (so "07/31/2025"
\* gives "2025-07-31").
C5_MonthFirstWhenDayOver12 ==
    (DateDone /\ NumericTriple(raw)) =>
        LET f == SplitOn(raw, DateSep)
        IN  (NumberOf(f[1]) <= 12 /\ NumberOf(f[2]) > 12)
                => out = IsoOf(f[3], padStart2(f[1]), padStart2(f[2]))

\* C6: toISODate of a numeric triple a<sep>b<sep>Y with a four-digit Y is
\* Y-b-a when a > 12 (a is the day) and Y-a-b when a and b are both <= 12
\* (the tie goes to month-day), each component zero-padded to two digits.
C6_DayFirstOver12ElseMonthDay ==
    (DateDone /\ NumericTriple(raw)) =>
        LET f == SplitOn(raw, DateSep)
        IN  /\ NumberOf(f[1]) > 12
                => out = IsoOf(f[3], padStart2(f[2]), padStart2(f[1]))
            /\ (NumberOf(f[1]) <= 12 /\ NumberOf(f[2]) <= 12)
                => out = IsoOf(f[3], padStart2(f[1]), padStart2(f[2]))

\* C6 witness: toISODate has answered a triple whose two leading components
\* are different numbers, both <= 12, with month-day order.
C6_Witness ==
    /\ DateDone /\ npc = "done"
    /\ NumericTriple(raw)
    /\ LET f == SplitOn(raw, DateSep)
       IN  /\ NumberOf(f[1]) <= 12 /\ NumberOf(f[2]) <= 12
           /\ NumberOf(f[1]) # NumberOf(f[2])
           /\ out = IsoOf(f[3], padStart2(f[1]), padStart2(f[2]))

\* C7: every result of toISODate is "unknown" or has the exact shape
\* dddd-dd-dd, whatever the argument (years of 2 or 3 digits included).
C7_UnknownOrIsoShape ==
    /\ DateDone => (out = Unknown \/ IsoShape(out))
    /\ (DateDone /\ npc = "redone") => (again = Unknown \/ IsoShape(again))

\* C8: each normaliser is idempotent: applied to its own result it returns
\* that result unchanged.
C8_Idempotent ==
    npc = "redone" => again = out

\* C9: every result of normalizeAmount has the shape optional '-', digits,
\* '.', two digits (and is "0.00" when the cleaned argument is no number).
C9_AmountShape ==
    (fn = "normalizeAmount" /\ npc # "call") =>
        /\ AmountShape(out)
        /\ NumberLiteral(Keep(Drop(Trim(raw), {"(", ")", ","}),
                              Digit \cup {".", "-"})).nan => out = ZeroAmount

\* C10: normalizeCurrency resolves the trimmed, upper-cased argument in a
\* fixed order: a table key gives its table entry; else three letters give
\* themselves; else the first key in table order found inside the argument
\* gives its entry; else "unknown".  The result is three upper-case letters
\* or "unknown".
C10_ResolverOrder ==
    (fn = "normalizeCurrency" /\ npc # "call") =>
        LET s      == ToUpper(Trim(raw))
            K      == 1..Len(SYMBOL_TO_ISO)
            exact  == {k \in K : SYMBOL_TO_ISO[k].key = s}
            inside == {k \in K : Includes(s, SYMBOL_TO_ISO[k].key)}
        IN  /\ out = Unknown \/ IsIsoCode(out)
            /\ exact # {} => \E k \in exact : out = SYMBOL_TO_ISO[k].iso
            /\ (exact = {} /\ IsIsoCode(s)) => out = s
            /\ (exact = {} /\ ~ IsIsoCode(s) /\ inside # {})
                 => \E k \in inside :
                        /\ \A j \in inside : k <= j
                        /\ out = SYMBOL_TO_ISO[k].iso
            /\ (exact = {} /\ ~ IsIsoCode(s) /\ inside = {}) => out = Unknown

\* C10 witness: normalizeCurrency has answered an argument that is neither a
\* key nor a code and that holds two keys of different currencies, the one
\* later in the table standing first in the argument; the result is the
\* currency of the key earlier in the table.
C10_Witness ==
    /\ fn = "normalizeCurrency" /\ npc = "done"
    /\ LET s == ToUpper(Trim(raw))
       IN  /\ Len(s) >= 2
           /\ ~ IsIsoCode(s)
           /\ \A k \in 1..Len(SYMBOL_TO_ISO) : SYMBOL_TO_ISO[k].key # s
           /\ \E k, j \in 1..Len(SYMBOL_TO_ISO) :
                 /\ k < j
                 /\ SYMBOL_TO_ISO[k].iso # SYMBOL_TO_ISO[j].iso
                 /\ Len(SYMBOL_TO_ISO[k].key) = 1 /\ Len(SYMBOL_TO_ISO[j].key) = 1
                 /\ s[1] = SYMBOL_TO_ISO[j].key[1]
                 /\ Includes(s, SYMBOL_TO_ISO[k].key)
                 /\ \A i \in 1..(k - 1) : ~ Includes(s, SYMBOL_TO_ISO[i].key)
                 /\ out = SYMBOL_TO_ISO[k].iso

(***************************************************************************)
(* Calls of sumAmounts: on a list of amounts, then on the same list in the *)
(* opposite order.                                                         *)
(***************************************************************************)

\* The longest list of amounts summed.
MaxVals == 3

\* Amounts of two decimals: small ones of both signs, among them the list of
\* the spec's example, and one of sixteen digits.
MoneyAmounts ==
    { <<"1", "0", ".", "0", "0">>, <<"-", "3", ".", "3", "3">>,
      <<"0", ".", "0", "1">>, <<"0", ".", "0", "0">>,
      <<"-", "0", ".", "2", "9">>,
      <<"4", "3", "6", "2", "6", "3", "0", "0", "0", "4", "0", "7", "6", "3",
        ".", "8", "8">> }
AmountLists == StringsOver(MoneyAmounts, MaxVals)

Reverse(s) == [i \in 1..Len(s) |-> s[Len(s) + 1 - i]]

InitMoney ==
    /\ PdfIdle
    /\ npc = "call"
    /\ fn = "sumAmounts"
    /\ raw \in AmountLists
    /\ tieUp = FALSE
    /\ out = <<>>
    /\ again = <<>>

CallSumAmounts ==
    /\ fn = "sumAmounts"
    /\ npc \in {"call", "done"}
    /\ IF npc = "call"
       THEN out' = sumAmounts(raw) /\ npc' = "done" /\ UNCHANGED again
       ELSE again' = sumAmounts(Reverse(raw)) /\ npc' = "redone" /\ UNCHANGED out
    /\ UNCHANGED <<fn, raw, tieUp>>
    /\ UNCHANGED <<pc, warnings, s1, s2, result, response>>
    /\ UNCHANGED ocrVars

NextMoney == CallSumAmounts

SpecMoney == InitMoney /\ [][NextMoney]_vars

(***************************************************************************)
(* Properties of the money arithmetic.                                     *)
(***************************************************************************)

\* The cents of an amount of two decimals, as a signed natural number.
CentsOf(v) ==
    LET m == ToLimbs(Keep(v, Digit))
    IN  [neg |-> m # <<>> /\ Head(v) = "-", m |-> m]

SignedSum(x, y) ==
    IF x.neg = y.neg THEN [neg |-> x.neg, m |-> BigAdd(x.m, y.m)]
    ELSE IF x.m = y.m THEN [neg |-> FALSE, m |-> <<>>]
    ELSE IF BigLess(x.m, y.m) THEN [neg |-> y.neg, m |-> BigSub(y.m, x.m)]
    ELSE [neg |-> x.neg, m |-> BigSub(x.m, y.m)]

RECURSIVE ExactCents(_)
\* The integer sum of the cents of a list of amounts
ExactCents(vals) ==
    IF vals = <<>> THEN [neg |-> FALSE, m |-> <<>>]
    ELSE SignedSum(CentsOf(Head(vals)), ExactCents(Tail(vals)))

\* A signed number of cents written with two decimals
TwoDecimals(c) ==
    (IF c.neg THEN <<"-">> ELSE <<>>) \o Pointed(FromLimbs(c.m), 2)

\* C11: sumAmounts returns the integer sum of the amounts' cents written
\* with two decimals, and the same string for the list in another order.
C11_ExactCentSum ==
    fn = "sumAmounts" =>
        /\ npc \in {"done", "redone"} => out = TwoDecimals(ExactCents(raw))
        /\ npc = "redone" => again = out

(***************************************************************************)
(* Semantic scoring of lib/normalize.ts: clamp01, to5, djb2, jitter,       *)
(* rowPointFrom, headerPointFrom, docPointFrom, footerStatsFrom.           *)
(***************************************************************************)

\* n as a number, 0 <= n < Base; n / d as a number (a literal such as 0.30)
Natural(n) == Double(FALSE, IF n = 0 THEN <<>> ELSE <<n>>, 0)
Ratio(n, d) == RoundRatio(FALSE, <<n>>, d, 0)

\* x * k and x / d for a small natural number
TimesNat(x, k) ==
    IF Evaluated(x) THEN RoundBits(x.neg, MulSmall(x.m, k), x.e) ELSE x
OverNat(x, d) ==
    IF Evaluated(x) THEN RoundRatio(x.neg, x.m, d, x.e) ELSE x

\* a * b for b of at most four limbs, the limbs of a double's 53 bits
RowOf(a, b, j) ==
    IF j > Len(b) \/ a = <<>> \/ b[j] = 0 THEN <<>>
    ELSE MulSmall(a, b[j]) \o [i \in 1..(Len(b) - j) |-> 0]
BigMul(a, b) ==
    BigAdd(BigAdd(RowOf(a, b, 1), RowOf(a, b, 2)),
           BigAdd(RowOf(a, b, 3), RowOf(a, b, 4)))
\* x * y
Times(x, y) ==
    IF Evaluated(x) /\ Evaluated(y)
    THEN RoundBits(x.neg # y.neg, BigMul(x.m, y.m), x.e + y.e)
    ELSE x

\* x < y
Below(x, y) ==
    BigLess(ShiftLeft(x.m, x.e - Min(x.e, y.e)), ShiftLeft(y.m, y.e - Min(x.e, y.e)))
LessThan(x, y) ==
    IF (x.neg /\ x.m # <<>>) # (y.neg /\ y.m # <<>>) THEN x.neg /\ x.m # <<>>
    ELSE IF x.neg /\ x.m # <<>> THEN Below(y, x)
    ELSE Below(x, y)
MathMin(x, y) == IF Evaluated(x) /\ Evaluated(y) /\ LessThan(y, x) THEN y ELSE x
MathMax(x, y) == IF Evaluated(x) /\ Evaluated(y) /\ LessThan(x, y) THEN y ELSE x

\* The scale of a score: 1e5.
Scale5 == 100000

clamp01(x) == MathMax(Natural(0), MathMin(Natural(1), x))
\* (Math.round(x * 1e5) / 1e5).toFixed(5)
Rounded5(x) == toFixed(OverNat(MathRound(TimesNat(x, Scale5)), Scale5), 5)
\* to5 without the clamp
to5_Unclamped(x) == Rounded5(x)
to5(x) == Rounded5(clamp01(x))

\* The printable ASCII characters, from code 32 on.
Ascii ==
    << " ", "!", "\"", "#", "$", "%", "&", "'", "(", ")", "*", "+", ",", "-",
       ".", "/", "0", "1", "2", "3", "4", "5", "6", "7", "8", "9", ":", ";",
       "<", "=", ">", "?", "@", "A", "B", "C", "D", "E", "F", "G", "H", "I",
       "J", "K", "L", "M", "N", "O", "P", "Q", "R", "S", "T", "U", "V", "W",
       "X", "Y", "Z", "[", "\\", "]", "^", "_", "U+0060", "a", "b", "c", "d", "e",
       "f", "g", "h", "i", "j", "k", "l", "m", "n", "o", "p", "q", "r", "s",
       "t", "u", "v", "w", "x", "y", "z", "{", "|", "}", "~" >>
\* str.charCodeAt(i)
charCodeAt(c) ==
    IF \E i \in 1..Len(Ascii) : Ascii[i] = c THEN 31 + IndexIn(c, Ascii)
    ELSE IF c = "\t" THEN 9
    ELSE IF c = "\n" THEN 10
    ELSE IF c = "\r" THEN 13
    ELSE IF c = "U+20B1" THEN 8369
    ELSE IF c = "U+00A5" THEN 165
    ELSE IF c = "U+00A3" THEN 163
    ELSE 8364

\* 2^16: h is kept modulo 2^32 as [hi, lo], the number hi * 2^16 + lo.  The
\* code's h is a number that grows past 32 bits, but h << 5 and h >>> 0 read
\* it modulo 2^32, and ((h << 5) + h) + c is 33 * h + c modulo 2^32.
Half == 65536
Hash33(h, c) ==
    [hi |-> (33 * h.hi + (33 * h.lo + c) \div Half) % Half,
     lo |-> (33 * h.lo + c) % Half]
RECURSIVE HashFrom(_, _, _)
HashFrom(str, i, h) ==
    IF i > Len(str) \/ ~ Evaluated(h) THEN h
    ELSE HashFrom(str, i + 1, Hash33(h, charCodeAt(str[i])))
\* ((h >>> 0) % 10000) / 10000, h from 5381
HashMod(h) == ((h.hi % 10000) * (Half % 10000) + h.lo) % 10000
djb2(str) ==
    OverNat(Natural(HashMod(HashFrom(str, 1, [hi |-> 5381 \div Half, lo |-> 5381 % Half]))),
            10000)
jitter(seed, scale) == Times(scale, djb2(seed))

\* 1 : 0 of a test
Flag(b) == IF b THEN Natural(1) ELSE PlusZero
\* ^[A-Z]{3}$
IsoCurrency(s) == Len(s) = 3 /\ AllIn(s, Upper)
\* The length of s.replace(/\s+/g, " ").trim(): the characters that are no
\* space, and one for every run of spaces between two of them.
SquashedLength(s) ==
    Cardinality({i \in 1..Len(s) : s[i] \notin Space})
        + Cardinality({i \in 2..Len(s) :
                          /\ s[i] \notin Space /\ s[i - 1] \in Space
                          /\ \E j \in 1..(i - 2) : s[j] \notin Space})
\* The fields joined by "|"
RECURSIVE Joined(_)
Joined(fields) ==
    IF Len(fields) = 1 THEN fields[1]
    ELSE fields[1] \o <<"|">> \o Joined(Tail(fields))

\* The weights of the features of a row and of a header, the scale of the
\* jitter and the bonus of a balanced document.
RowWeights ==
    [date |-> Ratio(30, 100), amount |-> Ratio(40, 100),
     description |-> Ratio(20, 100), currency |-> Ratio(10, 100)]
HeaderWeights ==
    [bank |-> Ratio(18, 100), identifier |-> Ratio(14, 100),
     date |-> Ratio(18, 100), other |-> Ratio(12, 100)]
\* A scale of one percent
JitterScale_Wide == Ratio(1, 100)
JitterScale == Ratio(5, 1000)
Bonus == Ratio(1, 10)

RowScore(row) ==
    Plus(Plus(Plus(Times(RowWeights.date,
                         Flag(row.date # Unknown /\ IsoShape(row.date))),
                   Times(RowWeights.amount, Flag(AmountShape(row.amount)))),
              Times(RowWeights.description,
                    MathMax(Natural(0),
                            MathMin(Natural(1),
                                    OverNat(Natural(SquashedLength(row.description)), 40))))),
         Times(RowWeights.currency, Flag(IsoCurrency(row.currency))))
rowPointFrom(row) ==
    to5(Plus(RowScore(row),
             jitter(Joined(<<row.date, row.description, row.amount, row.currency>>),
                    JitterScale)))

HeaderScore(header) ==
    Plus(Plus(Plus(Plus(Plus(Plus(
        Times(HeaderWeights.bank, Flag(header.bank # Unknown)),
        Times(HeaderWeights.identifier, Flag(header.bank_account # Unknown))),
        Times(HeaderWeights.identifier, Flag(header.customer_account_number # Unknown))),
        Times(HeaderWeights.date, Flag(header.statement_date # Unknown
                                      /\ IsoShape(header.statement_date)))),
        Times(HeaderWeights.other, Flag(AmountShape(header.opening_balance)))),
        Times(HeaderWeights.other, Flag(AmountShape(header.closing_balance)))),
        Times(HeaderWeights.other, Flag(IsoCurrency(header.currency))))
headerPointFrom(header) ==
    to5(Plus(HeaderScore(header),
             jitter(Joined(<<header.bank, header.bank_account,
                             header.customer_account_number, header.statement_date,
                             header.opening_balance, header.closing_balance,
                             header.currency>>),
                    JitterScale)))

\* Number(s || "0"), of a score
NumberOfPoint(s) == NumberOfString(IF s = <<>> THEN <<"0">> ELSE s).num
RECURSIVE SumPoints(_, _)
\* rows.reduce((s, r) => s + Number(r.row_point || "0"), s)
SumPoints(rows, s) ==
    IF rows = <<>> \/ ~ Evaluated(s) THEN s
    ELSE SumPoints(Tail(rows), Plus(s, NumberOfPoint(Head(rows).row_point)))
Amounts(rows) == [i \in 1..Len(rows) |-> rows[i].amount]

\* The sum of the row_points in the place of their mean
docPointFrom_Sum(header, rows) ==
    Rounded5(MathMin(Natural(1),
        Plus(OverNat(Plus(NumberOfPoint(header.row_point),
                          SumPoints(rows, PlusZero)), 2),
             IF equalsMoney(sumAmounts(<<header.opening_balance, sumAmounts(Amounts(rows))>>),
                            header.closing_balance)
             THEN Bonus ELSE PlusZero)))
docPointFrom(header, rows) ==
    Rounded5(MathMin(Natural(1),
        Plus(OverNat(Plus(NumberOfPoint(header.row_point),
                          IF rows = <<>> THEN PlusZero
                          ELSE OverNat(SumPoints(rows, PlusZero), Len(rows))), 2),
             IF equalsMoney(sumAmounts(<<header.opening_balance, sumAmounts(Amounts(rows))>>),
                            header.closing_balance)
             THEN Bonus ELSE PlusZero)))

footerStatsFrom(header, rows) ==
    [num_transactions    |-> Len(rows),
     total_amount_parsed |-> sumAmounts(Amounts(rows)),
     balanced            |-> equalsMoney(sumAmounts(<<header.opening_balance,
                                                      sumAmounts(Amounts(rows))>>),
                                         header.closing_balance),
     doc_point           |-> docPointFrom(header, rows)]

(***************************************************************************)
(* lib/rows-to-normalized.ts.  A field of a row or of meta that is not     *)
(* given (undefined) is written Absent.                                     *)
(***************************************************************************)

Absent == <<"undefined">>
\* x ?? d
Given(x, d) == IF x = Absent THEN d ELSE x
\* a || b, of strings
OrElse(a, b) == IF a = <<>> THEN b ELSE a

\* How often the currency of the i-th row occurs, and whether the i-th row
\* is the first with it, an ISO code: the keys of the Map, in insertion order.
Votes(rows, i) ==
    Cardinality({k \in 1..Len(rows) : rows[k].currency = rows[i].currency})
FirstIso(rows, i) ==
    /\ IsoCurrency(rows[i].currency)
    /\ \A k \in 1..(i - 1) : rows[k].currency # rows[i].currency
\* The first-inserted key of the Map with the greatest count
majorityIsoCurrency(rows) ==
    IF \A i \in 1..Len(rows) : ~ IsoCurrency(rows[i].currency) THEN Unknown
    ELSE rows[CHOOSE i \in 1..Len(rows) :
                /\ FirstIso(rows, i)
                /\ \A j \in 1..Len(rows) :
                      FirstIso(rows, j) =>
                          \/ Votes(rows, j) < Votes(rows, i)
                          \/ Votes(rows, j) = Votes(rows, i) /\ j >= i].currency

\* A transaction with its row_point
Scored(t) ==
    [date |-> t.date, description |-> t.description, amount |-> t.amount,
     currency |-> t.currency, row_point |-> rowPointFrom(t)]
\* The first pass without the stand-in of an empty description
FirstPass_NoStandIn(rows, tie) ==
    [i \in 1..Len(rows) |->
        Scored([date        |-> toISODate(Given(rows[i].date, Unknown)),
                description |-> Trim(Given(rows[i].description, <<>>)),
                amount      |-> normalizeAmount(Given(rows[i].amount, <<"0">>), tie),
                currency    |-> OrElse(normalizeCurrency(Given(rows[i].currency, <<>>)),
                                       Unknown)])]
\* First pass (lines 33-41)
FirstPass(rows, tie) ==
    [i \in 1..Len(rows) |->
        Scored([date        |-> toISODate(Given(rows[i].date, Unknown)),
                description |-> OrElse(Trim(Given(rows[i].description, <<>>)), Unknown),
                amount      |-> normalizeAmount(Given(rows[i].amount, <<"0">>), tie),
                currency    |-> OrElse(normalizeCurrency(Given(rows[i].currency, <<>>)),
                                       Unknown)])]
\* Header currency (lines 52-54)
HeaderCurrency(meta, txns) ==
    OrElse(OrElse(normalizeCurrency(Given(meta.currency, <<>>)),
                  majorityIsoCurrency(txns)),
           Unknown)
\* The backfill that sets the currency and keeps the row_point of the first
\* pass.
Backfilled_Stale(txns, headerCurrency) ==
    [i \in 1..Len(txns) |->
        IF ~ IsoCurrency(txns[i].currency)
        THEN [txns[i] EXCEPT
                 !.currency = IF IsoCurrency(headerCurrency)
                              THEN headerCurrency ELSE Unknown]
        ELSE txns[i]]
\* The backfill that gives every row the header currency when that is an
\* ISO code
Backfilled_Overwriting(txns, headerCurrency) ==
    [i \in 1..Len(txns) |->
        IF ~ IsoCurrency(txns[i].currency) \/ IsoCurrency(headerCurrency)
        THEN Scored([txns[i] EXCEPT
                        !.currency = IF IsoCurrency(headerCurrency)
                                     THEN headerCurrency ELSE Unknown])
        ELSE txns[i]]
\* Backfill (lines 57-64)
Backfilled(txns, headerCurrency) ==
    [i \in 1..Len(txns) |->
        IF ~ IsoCurrency(txns[i].currency)
        THEN Scored([txns[i] EXCEPT
                        !.currency = IF IsoCurrency(headerCurrency)
                                     THEN headerCurrency ELSE Unknown])
        ELSE txns[i]]
\* Header fields (lines 44-49, 67)
HeaderFields(meta, headerCurrency, tie) ==
    [bank            |-> cleanBankName(Given(meta.bank, Unknown)),
     bank_account    |-> cleanIdentifier(Given(meta.bank_account, Unknown)),
     customer_account_number |->
         cleanIdentifier(Given(meta.customer_account_number,
                               cleanIdentifier(Given(meta.bank_account, Unknown)))),
     statement_date  |-> toISODate(Given(meta.statement_date, Unknown)),
     opening_balance |-> normalizeAmount(Given(meta.opening_balance, <<"0">>), tie),
     closing_balance |-> normalizeAmount(Given(meta.closing_balance, <<"0">>), tie),
     currency        |-> headerCurrency]
\* A header with its row_point (line 68)
WithPoint(h) ==
    [bank |-> h.bank, bank_account |-> h.bank_account,
     customer_account_number |-> h.customer_account_number,
     statement_date |-> h.statement_date, opening_balance |-> h.opening_balance,
     closing_balance |-> h.closing_balance, currency |-> h.currency,
     row_point |-> headerPointFrom(h)]
\* The statement of a header and its transactions (lines 74-76)
Statement(header, txns) ==
    [header |-> header, transactions |-> txns,
     footer |-> footerStatsFrom(header, txns)]
Resolved(meta, txns, headerCurrency, tie) ==
    Statement(WithPoint(HeaderFields(meta, headerCurrency, tie)),
              Backfilled(txns, headerCurrency))
FromFirstPass(meta, txns, tie) ==
    Resolved(meta, txns, HeaderCurrency(meta, txns), tie)
rowsToNormalized(rows, meta, tie) == FromFirstPass(meta, FirstPass(rows, tie), tie)

(***************************************************************************)
(* lib/pdf-text-parser.ts.  The text is a sequence of characters; a match  *)
(* that is absent (null, undefined) is written Absent.                     *)
(***************************************************************************)

\* The characters of s at the positions in idx, in order.
Pick(s, idx) ==
    [k \in 1..Cardinality(idx) |->
        s[CHOOSE i \in idx : Cardinality({j \in idx : j <= i}) = k]]
Range(s) == {s[i] : i \in 1..Len(s)}
\* The least member of a non-empty set of numbers
Least(set) == CHOOSE i \in set : \A j \in set : i <= j
Greatest(set) == CHOOSE i \in set : \A j \in set : i >= j

\* text.replace(/\r/g, "") (line 53)
Source(text) == Drop(text, {"\r"})
\* src.split("\n"), src.split(/\r?\n/) of a text without "\r"
Lines(src) == SplitOn(src, {"\n"})
\* .slice(0, n)
Slice(s, n) == SubSeq(s, 1, Min(n, Len(s)))

\* s.replace(/\t+/g, " ").replace(/\s{2,}/g, " ").trim() of one line: the
\* tabs become blanks, a run of blanks becomes one blank.
Blanked(s) == [i \in 1..Len(s) |-> IF s[i] = "\t" THEN " " ELSE s[i]]
Collapsed(s) ==
    Pick(s, {i \in 1..Len(s) : s[i] \notin Space \/ i = 1 \/ s[i - 1] \notin Space})
Squeezed(line) == Trim(Collapsed(Blanked(line)))

\* [$₱€¥£]
CurrencySigns == {"$", "U+20B1", "U+20AC", "U+00A5", "U+00A3"}

\* s without its first character if that is in set: an optional character
\* of a pattern, which takes the character whenever it can.
Skip(s, set) == IF s # <<>> /\ Head(s) \in set THEN Tail(s) ELSE s
SkipLast(s, set) ==
    IF s # <<>> /\ s[Len(s)] \in set THEN SubSeq(s, 1, Len(s) - 1) ELSE s
\* [0-9,]*\.?[0-9]+ on the whole of s
Numeral(s) ==
    /\ s # <<>>
    /\ s[Len(s)] \in Digit
    /\ \/ AllIn(s, Digit \cup {","})
       \/ \E p \in 1..Len(s) :
             /\ s[p] = "."
             /\ AllIn(SubSeq(s, 1, p - 1), Digit \cup {","})
             /\ AllIn(SubSeq(s, p + 1, Len(s)), Digit)
\* [-(]?\s?[$₱€¥£]?\s?[0-9,]*\.?[0-9]+[\)]? on the whole of s: no optional
\* part can be given up for a later one, the classes are disjoint.
AmountToken(s) ==
    Numeral(SkipLast(Skip(Skip(Skip(Skip(s, {"-", "("}), Space),
                               CurrencySigns), Space), {")"}))

\* \d{4}-\d{2}-\d{2} and \d{1,2}[\/-]\d{1,2}[\/-]\d{2,4} on the whole of s
IsoDateToken(s) ==
    /\ Len(s) = 10
    /\ s[5] = "-" /\ s[8] = "-"
    /\ \A i \in {1, 2, 3, 4, 6, 7, 9, 10} : s[i] \in Digit
NumericDateToken(s) ==
    LET f == SplitOn(s, {"/", "-"})
    IN  Len(f) = 3 /\ Digits(f[1], 1, 2) /\ Digits(f[2], 1, 2) /\ Digits(f[3], 2, 4)

\* ROW_PATTERNS (lines 23-26) on a squeezed line, which has single blanks
\* only and none at its ends: the date ends at the first blank, the
\* description (.+?) is the shortest that leaves an amount token behind a
\* blank.  The first pattern asks for an ISO date, the second for a numeric
\* date; the rest of the two patterns is the same.
NoRow == [ok |-> FALSE, date |-> <<>>, desc |-> <<>>, amt |-> <<>>]
AmountStarts(line) ==
    {p \in 1..Len(line) :
        /\ line[p] = " "
        /\ p >= Lead(line, {c \in Range(line) : c # " "}) + 3
        /\ AmountToken(SubSeq(line, p + 1, Len(line)))}
\* The first pattern alone
RowMatch_IsoOnly(line) ==
    LET d == Lead(line, {c \in Range(line) : c # " "})
    IN  IF /\ d < Len(line)
           /\ IsoDateToken(SubSeq(line, 1, d))
           /\ AmountStarts(line) # {}
        THEN [ok   |-> TRUE,
              date |-> SubSeq(line, 1, d),
              desc |-> SubSeq(line, d + 2, Least(AmountStarts(line)) - 1),
              amt  |-> SubSeq(line, Least(AmountStarts(line)) + 1, Len(line))]
        ELSE NoRow
RowMatch(line) ==
    LET d == Lead(line, {c \in Range(line) : c # " "})
    IN  IF /\ d < Len(line)
           /\ IsoDateToken(SubSeq(line, 1, d)) \/ NumericDateToken(SubSeq(line, 1, d))
           /\ AmountStarts(line) # {}
        THEN [ok   |-> TRUE,
              date |-> SubSeq(line, 1, d),
              desc |-> SubSeq(line, d + 2, Least(AmountStarts(line)) - 1),
              amt  |-> SubSeq(line, Least(AmountStarts(line)) + 1, Len(line))]
        ELSE NoRow
\* The position behind the whitespace that starts at i (\s* taken whole)
PastSpace(src, i) == i + Lead(SubSeq(src, i, Len(src)), Space)
\* Whether word w, in lower case, is at position i of src in either case
WordAt(src, i, w) ==
    /\ i + Len(w) - 1 <= Len(src)
    /\ ToLower(SubSeq(src, i, i + Len(w) - 1)) = w
RECURSIVE LabelEnd(_, _, _)
\* The position behind the label at i, whose words have \s* between them,
\* and 0 if the label is not at i.
LabelEnd(src, i, words) ==
    IF ~ WordAt(src, i, Head(words)) THEN 0
    ELSE IF Len(words) = 1 THEN i + Len(Head(words))
    ELSE LabelEnd(src, PastSpace(src, i + Len(Head(words))), Tail(words))

\* \s*([^\n\r]+) from position v: the whitespace gives back what it took
\* until a character other than a line end follows; the value runs to the
\* end of its line.
ValueStarts(src, v) ==
    {p \in v..Min(PastSpace(src, v), Len(src)) : src[p] \notin LineEnd}
ValueFrom(src, p) ==
    SubSeq(src, p, p - 1 + Lead(SubSeq(src, p, Len(src)), Range(src) \ LineEnd))
\* The places at which the label followed by a value matches
LabelPlaces(src, words) ==
    {i \in 1..Len(src) :
        /\ LabelEnd(src, i, words) # 0
        /\ ValueStarts(src, LabelEnd(src, i, words)) # {}}
\* src.match(/Label:\s*([^\n\r]+)/i)?.[1]
LabelValueAt(src, e) == ValueFrom(src, Greatest(ValueStarts(src, e)))
LabelValue(src, words) ==
    IF LabelPlaces(src, words) = {} THEN Absent
    ELSE LabelValueAt(src, LabelEnd(src, Least(LabelPlaces(src, words)), words))

\* RE_ACC_NUM, RE_STMT_DATE, RE_OPENING, RE_CLOSING (lines 15-19)
RE_ACC_NUM ==
    << <<"a", "c", "c", "o", "u", "n", "t">>,
       <<"n", "u", "m", "b", "e", "r", ":">> >>
RE_STMT_DATE ==
    << <<"s", "t", "a", "t", "e", "m", "e", "n", "t">>,
       <<"d", "a", "t", "e", ":">> >>
RE_OPENING ==
    << <<"o", "p", "e", "n", "i", "n", "g">>,
       <<"b", "a", "l", "a", "n", "c", "e", ":">> >>
RE_CLOSING ==
    << <<"c", "l", "o", "s", "i", "n", "g">>,
       <<"b", "a", "l", "a", "n", "c", "e", ":">> >>

\* RE_CURRENCY = /Currency:\s*([A-Za-z]{3}|[$₱€¥£])/i (line 20): behind the
\* whitespace, which has nothing to give back to either alternative, three
\* letters or else one sign.
CurrencyLabel == << <<"c", "u", "r", "r", "e", "n", "c", "y", ":">> >>
CodeAt(src, p) == p + 2 <= Len(src) /\ AllIn(SubSeq(src, p, p + 2), Letter)
SignAt(src, p) == p <= Len(src) /\ src[p] \in CurrencySigns
CurrencyPlaces(src) ==
    {i \in 1..Len(src) :
        /\ LabelEnd(src, i, CurrencyLabel) # 0
        /\ \/ CodeAt(src, PastSpace(src, LabelEnd(src, i, CurrencyLabel)))
           \/ SignAt(src, PastSpace(src, LabelEnd(src, i, CurrencyLabel)))}
CurrencyAt(src, p) ==
    IF CodeAt(src, p) THEN SubSeq(src, p, p + 2) ELSE <<src[p]>>
CurrencyValue(src) ==
    IF CurrencyPlaces(src) = {} THEN Absent
    ELSE CurrencyAt(src, PastSpace(src,
             LabelEnd(src, Least(CurrencyPlaces(src)), CurrencyLabel)))
\* looksLikeTableHeader (lines 29-32)
StartsWith(s, w) == Len(s) >= Len(w) /\ SubSeq(s, 1, Len(w)) = w
looksLikeTableHeader(line) ==
    \/ StartsWith(ToLower(line), <<"d", "a", "t", "e">>)
    \/ Includes(ToLower(line), <<"d", "e", "s", "c", "r", "i", "p", "t", "i", "o", "n">>)
    \/ Includes(ToLower(line), <<"a", "m", "o", "u", "n", "t">>)
    \/ Includes(ToLower(line), <<"b", "a", "l", "a", "n", "c", "e">>)

\* \w, and \b before position i and behind position j of a line whose
\* characters at i and at j are word characters
WordChar == Letter \cup Digit \cup {"_"}
StartBound(l, i) == i = 1 \/ l[i - 1] \notin WordChar
EndBound(l, j) == j = Len(l) \/ l[j + 1] \notin WordChar
\* The ends of a numeric date, of an ISO date and of a named date that starts
\* at i; a date has at most MaxDateLen characters but for its whitespace.
MaxDateLen == 10
NumericEnds(l, i) ==
    {j \in i..Min(i + MaxDateLen - 1, Len(l)) :
        NumericDateToken(SubSeq(l, i, j)) /\ EndBound(l, j)}
IsoEnds(l, i) ==
    {j \in i..Min(i + MaxDateLen - 1, Len(l)) :
        IsoDateToken(SubSeq(l, i, j)) /\ EndBound(l, j)}
NamedEnds(l, i) ==
    {j \in i..Len(l) : named1(SubSeq(l, i, j)).ok /\ EndBound(l, j)}
\* containsDateToken (lines 33-35)
containsDateToken(line) ==
    \E i \in 1..Len(line) :
        StartBound(line, i) /\ (NumericEnds(line, i) # {} \/ IsoEnds(line, i) # {})

\* BANK_HINTS (lines 36-39)
BANK_HINTS ==
    << <<"b", "a", "n", "k">>,
       <<"c", "r", "e", "d", "i", "t">>,
       <<"c", "a", "r", "d">>,
       <<"m", "a", "s", "t", "e", "r", "c", "a", "r", "d">>,
       <<"v", "i", "s", "a">>,
       <<"a", "m", "e", "r", "i", "c", "a", "n", " ", "e", "x", "p", "r", "e", "s", "s">>,
       <<"a", "m", "e", "x">>,
       <<"u", "n", "i", "o", "n", "b", "a", "n", "k">>,
       <<"b", "p", "i">>,
       <<"b", "d", "o">>,
       <<"c", "i", "t", "i">>,
       <<"c", "i", "t", "i", "b", "a", "n", "k">>,
       <<"h", "s", "b", "c">>,
       <<"c", "h", "a", "s", "e">>,
       <<"w", "e", "l", "l", "s", " ", "f", "a", "r", "g", "o">>,
       <<"c", "a", "p", "i", "t", "a", "l", " ", "o", "n", "e">>,
       <<"d", "i", "s", "c", "o", "v", "e", "r">> >>

\* Array.prototype.find on the indices of a list
FirstOf(idx) == IF idx = {} THEN 0 ELSE Least(idx)
\* top (line 41): the first twelve lines, trimmed, the empty ones left out
TopLines(text) ==
    SelectSeq([i \in 1..Min(12, Len(Lines(text))) |-> Trim(Lines(text)[i])],
              LAMBDA l : l # <<>>)
Plain(l) == ~ looksLikeTableHeader(l) /\ ~ containsDateToken(l)
Hinted(top) ==
    FirstOf({i \in 1..Len(top) :
        /\ Plain(top[i])
        /\ \E h \in 1..Len(BANK_HINTS) : Includes(ToLower(top[i]), BANK_HINTS[h])})
FirstEligible(top) ==
    FirstOf({i \in 1..Len(top) : Plain(top[i]) /\ Len(top[i]) >= 6})
BankFromTop(top) ==
    IF Hinted(top) # 0 THEN cleanBankName(top[Hinted(top)])
    ELSE IF FirstEligible(top) # 0 THEN cleanBankName(top[FirstEligible(top)])
    ELSE Unknown
\* inferBankNameFromTop (lines 40-50)
inferBankNameFromTop(text) == BankFromTop(TopLines(text))

\* l.match(/\b(ISO date|numeric date|named date)\b/)?.[0] (line 75): the
\* leftmost place at which one of the three begins; a place is the start of
\* at most one of them, and of one end.
DateStarts(l) ==
    {i \in 1..Len(l) :
        /\ StartBound(l, i)
        /\ IsoEnds(l, i) \cup NumericEnds(l, i) \cup NamedEnds(l, i) # {}}
DateFrom(l, i) ==
    SubSeq(l, i, Least(IF IsoEnds(l, i) # {} THEN IsoEnds(l, i)
                       ELSE IF NumericEnds(l, i) # {} THEN NumericEnds(l, i)
                       ELSE NamedEnds(l, i)))
\* The order of Array.prototype.sort on strings: by code units
Before(a, b) ==
    \E k \in 1..Len(b) :
        /\ k - 1 <= Len(a)
        /\ SubSeq(a, 1, k - 1) = SubSeq(b, 1, k - 1)
        /\ k > Len(a) \/ charCodeAt(a[k]) < charCodeAt(b[k])
\* The lines read for the statement date: .slice(0, 20)
MaxTop == 20
\* foundDates.map(toISODate).filter(d => d !== "unknown") of the first 20
\* lines (lines 73-77), as a set
FoundDates(lines) ==
    {toISODate(DateFrom(lines[i], Least(DateStarts(lines[i])))) :
        i \in {k \in 1..Min(MaxTop, Len(lines)) : DateStarts(lines[k]) # {}}}
    \ {Unknown}
\* The first of the sorted dates
Latest_Earliest(dates) == CHOOSE d \in dates : \A e \in dates : e = d \/ Before(d, e)
\* iso.sort().slice(-1)[0] (line 78)
Latest(dates) == CHOOSE d \in dates : \A e \in dates : e = d \/ Before(e, d)
\* statement_date (lines 71-79)
InferredDate(src, explicit) ==
    IF explicit # Unknown \/ FoundDates(Lines(src)) = {} THEN explicit
    ELSE Latest(FoundDates(Lines(src)))
StatementDate(src) ==
    InferredDate(src, toISODate(Given(LabelValue(src, RE_STMT_DATE), Unknown)))

\* One transaction of the row loop (lines 97-113)
TextRow(m, headerCurrency, tie) ==
    Scored([date        |-> toISODate(m.date),
            description |-> OrElse(Trim(Collapsed(m.desc)), Unknown),
            amount      |-> normalizeAmount(m.amt, tie),
            currency    |-> OrElse(OrElse(normalizeCurrency(m.amt), headerCurrency),
                                   Unknown)])
\* lines (86-89) and the lines that match a row pattern (92-95)
RowLines(src) ==
    SelectSeq([i \in 1..Len(Lines(src)) |-> Squeezed(Lines(src)[i])],
              LAMBDA l : l # <<>> /\ RowMatch(l).ok)
TextRows(matched, headerCurrency, tie) ==
    [i \in 1..Len(matched) |-> TextRow(RowMatch(matched[i]), headerCurrency, tie)]

\* headerTmp (lines 64-83, 117-125)
AccountOf(src) ==
    cleanIdentifier(OrElse(Trim(Given(LabelValue(src, RE_ACC_NUM), <<>>)), Unknown))
TextHeader(src, txns, headerCurrency, tie) ==
    [bank            |-> OrElse(inferBankNameFromTop(src), Unknown),
     bank_account    |-> AccountOf(src),
     customer_account_number |-> AccountOf(src),
     statement_date  |-> StatementDate(src),
     opening_balance |-> normalizeAmount(Given(LabelValue(src, RE_OPENING), <<"0">>), tie),
     closing_balance |-> normalizeAmount(Given(LabelValue(src, RE_CLOSING), <<"0">>), tie),
     currency        |-> OrElse(headerCurrency,
                                IF txns = <<>> THEN Unknown ELSE txns[1].currency)]
FromRows(src, txns, headerCurrency, tie) ==
    Statement(WithPoint(TextHeader(src, txns, headerCurrency, tie)), txns)
FromSource(src, headerCurrency, tie) ==
    FromRows(src, TextRows(RowLines(src), headerCurrency, tie), headerCurrency, tie)
\* parsePdfTextToNormalized (lines 52-132) of a text, which may be Absent
parsePdfTextToNormalized(text, tie) ==
    FromSource(Source(Given(text, <<>>)),
               normalizeCurrency(Given(CurrencyValue(Source(Given(text, <<>>))), <<>>)),
               tie)

(***************************************************************************)
(* Calls of the statement builders: rowsToNormalized on a list of rows and *)
(* a meta record, parsePdfTextToNormalized on a text; the statement that   *)
(* is returned is kept in out.                                             *)
(***************************************************************************)

\* The greatest number of rows of a call
MaxRows == 2

RowCoffee ==
    [date        |-> <<"2", "0", "2", "5", "-", "0", "7", "-", "3", "1">>,
     description |-> <<"C", "o", "f", "f", "e", "e">>,
     amount      |-> <<"-", "3", ".", "5", "0">>,
     currency    |-> USD]
RowRent ==
    [date        |-> <<"3", "1", "/", "0", "7", "/", "2", "0", "2", "5">>,
     description |-> <<"R", "e", "n", "t">>,
     amount      |-> <<"1", ",", "2", "0", "0">>,
     currency    |-> <<"U+20B1">>]
RowBare ==
    [date |-> <<>>, description |-> Absent, amount |-> <<" ">>,
     currency |-> Absent]
InRows == {RowCoffee, RowRent, RowBare}
\* A row whose amount times 100 is no double
RowLarge ==
    [date        |-> <<"2", "0", "2", "5", "-", "0", "7", "-", "3", "1">>,
     description |-> <<"W", "i", "r", "e">>,
     amount      |-> <<"4", "3", "6", "2", "6", "3", "0", "0", "0", "4",
                       "0", "7", "6", "3", ".", "8", "8">>,
     currency    |-> USD]

NoMeta ==
    [bank |-> Absent, bank_account |-> Absent,
     customer_account_number |-> Absent, statement_date |-> Absent,
     opening_balance |-> Absent, closing_balance |-> Absent,
     currency |-> Absent]
MetaEur ==
    [bank            |-> <<"B", "P", "I">>,
     bank_account    |-> <<"1", "2", "3", "4">>,
     customer_account_number |-> Absent,
     statement_date  |-> <<"2", "0", "2", "5", "-", "0", "8", "-", "0", "1">>,
     opening_balance |-> <<"1", "0", "0", ".", "0", "0">>,
     closing_balance |-> <<"9", "6", ".", "5", "0">>,
     currency        |-> <<"e", "u", "r">>]
MetaCash ==
    [NoMeta EXCEPT !.bank = <<>>,
                   !.statement_date = <<" ">>,
                   !.closing_balance = <<"1", "1", "9", "6", ".", "5", "0">>,
                   !.currency = <<"c", "a", "s", "h">>]
MetaLarge ==
    [NoMeta EXCEPT
        !.opening_balance = <<"4", "3", "6", "2", "6", "3", "0", "0", "0", "4",
                              "0", "7", "6", "3", ".", "8", "8">>,
        !.closing_balance = <<"4", "3", "6", "2", "6", "3", "0", "0", "0", "4",
                              "0", "7", "6", "3", ".", "8", "9">>]
Metas == {NoMeta, MetaEur, MetaCash, MetaLarge}

\* Two rows that take the amount of RowLarge back, in exact cents
RowLargeBack ==
    [RowLarge EXCEPT
        !.description = <<"B", "a", "c", "k">>,
        !.amount = <<"-", "4", "3", "6", "2", "6", "3", "0", "0", "0", "4",
                     "0", "7", "6", "3", ".", "0", "0">>]
RowCents ==
    [RowLarge EXCEPT !.description = <<"F", "e", "e">>,
                     !.amount = <<"-", "0", ".", "8", "8">>]
\* Two rows that cancel
RowRefund ==
    [RowCoffee EXCEPT !.description = <<"R", "e", "f", "u", "n", "d">>,
                      !.amount = <<"3", ".", "5", "0">>]
RowCalls ==
    [rows : StringsOver(InRows, MaxRows), meta : Metas]
        \cup {[rows |-> <<RowLarge>>, meta |-> NoMeta],
              [rows |-> <<RowLarge, RowLargeBack, RowCents>>, meta |-> NoMeta],
              [rows |-> <<RowCoffee, RowRefund>>, meta |-> NoMeta]}

\* Lines of a statement text: a head with labels, a head without, a line
\* with the currency label, two transaction lines and the table header.
HeadLabelled ==
    << <<"B", "P", "I", " ", "S", "a", "v", "i", "n", "g", "s">>,
       <<"A", "c", "c", "o", "u", "n", "t", " ", "N", "u", "m", "b", "e",
         "r", ":", " ", "1", "2", "-", "3", "4">>,
       <<"S", "t", "a", "t", "e", "m", "e", "n", "t", " ", "D", "a", "t",
         "e", ":", " ", "A", "u", "g", " ", "1", ",", " ", "2", "0", "2",
         "5">>,
       <<"O", "p", "e", "n", "i", "n", "g", " ", "B", "a", "l", "a", "n",
         "c", "e", ":", " ", "1", "0", "0", ".", "0", "0">>,
       <<"C", "l", "o", "s", "i", "n", "g", " ", "B", "a", "l", "a", "n",
         "c", "e", ":", " ", "9", "6", ".", "5", "0">> >>
HeadPlain ==
    << <<"S", "t", "a", "t", "e", "m", "e", "n", "t", " ", "o", "f", " ",
         "A", "c", "c", "o", "u", "n", "t">>,
       <<"J", "u", "l", " ", "3", "1", ",", " ", "2", "0", "2", "5">> >>
TextHeads == {<<>>, HeadLabelled, HeadPlain}
CurrencyLines ==
    { <<>>,
      << <<"C", "u", "r", "r", "e", "n", "c", "y", ":", " ", "P", "H", "P">> >> }
LineCoffee ==
    <<"2", "0", "2", "5", "-", "0", "7", "-", "3", "1", " ", "C", "o", "f",
      "f", "e", "e", " ", "-", "3", ".", "5", "0">>
LineRent ==
    <<"0", "7", "/", "3", "1", "/", "2", "0", "2", "5", " ", " ", "R", "e",
      "n", "t", "\t", "$", " ", "5", ".", "0", "0">>
LineTable ==
    <<"D", "a", "t", "e", " ", "D", "e", "s", "c", "r", "i", "p", "t", "i",
      "o", "n", " ", "A", "m", "o", "u", "n", "t">>
TextLines == {LineCoffee, LineRent, LineTable}

RECURSIVE TextOf(_)
\* The lines with a line feed behind each
TextOf(lines) ==
    IF lines = <<>> THEN <<>>
    ELSE Head(lines) \o <<"\n">> \o TextOf(Tail(lines))
\* Lines with dates of three kinds, a label without a date, a label with
\* one, a row of a later date, and a line without a date
LineStamp ==
    <<"S", "t", "a", "t", "e", "m", "e", "n", "t", " ", "a", "s", " ",
      "o", "f", " ", "1", "5", "/", "0", "8", "/", "2", "0", "2", "5">>
LinePrinted ==
    <<"P", "r", "i", "n", "t", "e", "d", " ", "2", "0", "2", "5", "-",
      "0", "8", "-", "0", "2">>
LineVague ==
    <<"S", "t", "a", "t", "e", "m", "e", "n", "t", " ", "D", "a", "t",
      "e", ":", " ", "s", "o", "o", "n">>
LineLabelIso ==
    <<"S", "t", "a", "t", "e", "m", "e", "n", "t", " ", "D", "a", "t",
      "e", ":", " ", "2", "0", "2", "5", "-", "0", "8", "-", "0", "1">>
LineLate ==
    <<"2", "0", "2", "5", "-", "0", "9", "-", "3", "0", " ", "C", "o",
      "f", "f", "e", "e", " ", "-", "3", ".", "5", "0">>
LineFiller == <<"x">>
\* Texts of dated lines; a row on line 20 and on line 21
Fillers(n) == [i \in 1..n |-> LineFiller]
DatedTexts ==
    { TextOf(<<LineCoffee, LineStamp, LinePrinted>>),
      TextOf(<<LineVague, LineCoffee, LineStamp, LinePrinted>>),
      TextOf(<<LineLabelIso, LineLate>>),
      TextOf(Fillers(MaxTop - 1) \o <<LineCoffee>>),
      TextOf(Fillers(MaxTop) \o <<LineCoffee>>) }
Texts ==
    {TextOf(h \o c \o l) :
        h \in TextHeads, c \in CurrencyLines, l \in StringsOver(TextLines, MaxRows)}
    \cup DatedTexts \cup {Absent}

InitStatement ==
    /\ PdfIdle
    /\ npc = "call"
    /\ \/ fn = "rowsToNormalized" /\ raw \in RowCalls
       \/ fn = "parsePdfTextToNormalized" /\ raw \in Texts
    /\ tieUp = FALSE
    /\ out = <<>>
    /\ again = <<>>

\* The call returns the statement.
Built(statement) ==
    /\ npc = "call"
    /\ out' = statement
    /\ npc' = "done"
    /\ UNCHANGED <<fn, raw, tieUp, again>>
    /\ UNCHANGED <<pc, warnings, s1, s2, result, response>>
    /\ UNCHANGED ocrVars

CallRowsToNormalized ==
    fn = "rowsToNormalized" /\ Built(rowsToNormalized(raw.rows, raw.meta, tieUp))

CallParsePdfTextToNormalized ==
    fn = "parsePdfTextToNormalized" /\ Built(parsePdfTextToNormalized(raw, tieUp))

NextStatement ==
    \/ CallRowsToNormalized
    \/ CallParsePdfTextToNormalized

SpecStatement == InitStatement /\ [][NextStatement]_vars

(***************************************************************************)
(* lib/csv-parser.ts.  The buffer is a sequence of characters without      *)
(* quotes.  parse of csv-parse/sync is taken by its options: the records   *)
(* are the non-empty lines, split at the delimiter, each cell trimmed; a   *)
(* record that is not as long as the first makes parse throw.  With        *)
(* columns: true the first record names the columns of the others.         *)
(***************************************************************************)

\* toIsoDate (lines 10-24)
toIsoDate(s) ==
    LET t == Trim(s)
        f == SplitOn(t, DateSep)
    IN  IF mYMD(t) THEN IsoOf(f[1], padStart2(f[2]), padStart2(f[3]))
        ELSE IF mDMY(t) THEN IsoOf(ExpandYear(f[3]), padStart2(f[2]), padStart2(f[1]))
        ELSE t

\* normalizeAmount of csv-parser.ts (lines 26-34)
CsvNormalizeAmount(rawAmount, tie) ==
    LET t   == Trim(rawAmount)
        s   == Keep(Drop(t, {"(", ")", ","}), Digit \cup {".", "-"})
        lit == NumberLiteral(IF s = <<>> THEN <<"0">> ELSE s)
        n   == IF lit.nan THEN Zero ELSE [neg |-> lit.neg, ip |-> lit.ip, fp |-> lit.fp]
    IN  toFixed2(IF parenNeg(t) THEN [n EXCEPT !.neg = TRUE] ELSE n, tie)

\* const delimiter (line 104)
Delimiter(text) == IF ";" \in Range(Lines(text)[1]) THEN ";" ELSE ","
\* parse(buffer, {columns: false, skip_empty_lines: true, trim: true, delimiter})
Cells(line, delimiter) ==
    [k \in 1..Len(SplitOn(line, {delimiter})) |-> Trim(SplitOn(line, {delimiter})[k])]
RecordsOf(lines, delimiter) ==
    [i \in 1..Len(lines) |-> Cells(lines[i], delimiter)]
Records(text) ==
    RecordsOf(SelectSeq(Lines(text), LAMBDA l : l # <<>>), Delimiter(text))
\* try { ... = parse(...) } catch {} (lines 108-115, 120-127)
Parsed(records) ==
    IF \A i \in 1..Len(records) : Len(records[i]) = Len(records[1])
    THEN records ELSE <<>>

\* r[key], and a ?? b ?? ... ?? "" over the keys: the value under the first
\* key that names a column
Column(names, record, key) ==
    record[Greatest({k \in 1..Len(names) : names[k] = key})]
FirstGiven(names, record, keys) ==
    IF \A k \in 1..Len(keys) : keys[k] \notin Range(names) THEN <<>>
    ELSE Column(names, record,
                keys[Least({k \in 1..Len(keys) : keys[k] \in Range(names)})])
\* The keys of date, of desc and of amt in mapHeaderRow (lines 48-74)
DateKeys ==
    << <<"d", "a", "t", "e">>,
       <<"D", "a", "t", "e">>,
       <<"D", "A", "T", "E">>,
       <<"T", "r", "a", "n", "s", "D", "a", "t", "e">>,
       <<"T", "r", "a", "n", "s", "a", "c", "t", "i", "o", "n", " ", "D",
         "a", "t", "e">>,
       <<"P", "o", "s", "t", "i", "n", "g", " ", "D", "a", "t", "e">>,
       <<"D", "a", "t", "e">> >>
DescKeys ==
    << <<"d", "e", "s", "c", "r", "i", "p", "t", "i", "o", "n">>,
       <<"D", "e", "s", "c", "r", "i", "p", "t", "i", "o", "n">>,
       <<"D", "E", "S", "C", "R", "I", "P", "T", "I", "O", "N">>,
       <<"M", "e", "r", "c", "h", "a", "n", "t">>,
       <<"M", "E", "R", "C", "H", "A", "N", "T">>,
       <<"D", "e", "t", "a", "i", "l", "s">>,
       <<"D", "e", "s", "c", "r", "i", "p", "t", "i", "o", "n", " ", "1">>,
       <<"N", "a", "r", "r", "a", "t", "i", "o", "n">> >>
AmountKeys ==
    << <<"a", "m", "o", "u", "n", "t">>,
       <<"A", "m", "o", "u", "n", "t">>,
       <<"A", "M", "O", "U", "N", "T">>,
       <<"T", "r", "a", "n", "s", "a", "c", "t", "i", "o", "n", " ", "A",
         "m", "o", "u", "n", "t">>,
       <<"A", "m", "o", "u", "n", "t", " ", "(", "P", "H", "P", ")">>,
       <<"A", "m", "o", "u", "n", "t", " ", "(", "U", "S", "D", ")">>,
       <<"A", "m", "o", "u", "n", "t">> >>

\* mapHeaderRow (lines 47-81)
mapHeaderRow(names, record, tie) ==
    [date        |-> toIsoDate(FirstGiven(names, record, DateKeys)),
     description |-> Trim(FirstGiven(names, record, DescKeys)),
     amount      |-> CsvNormalizeAmount(FirstGiven(names, record, AmountKeys), tie)]
\* const [d, desc, amt] = cols, each ?? ""
Col(cols, k) == IF k <= Len(cols) THEN cols[k] ELSE <<>>
\* mapNoHeaderRow (lines 83-90)
mapNoHeaderRow(cols, tie) ==
    [date        |-> toIsoDate(Col(cols, 1)),
     description |-> Trim(Col(cols, 2)),
     amount      |-> CsvNormalizeAmount(Col(cols, 3), tie)]

RECURSIVE CommaJoined(_)
\* lowered.join(",")
CommaJoined(cells) ==
    IF Len(cells) <= 1 THEN (IF cells = <<>> THEN <<>> ELSE cells[1])
    ELSE cells[1] \o <<",">> \o CommaJoined(Tail(cells))
Lowered(cols) == [k \in 1..Len(cols) |-> ToLower(Trim(cols[k]))]
\* isHeaderLikeRow (lines 37-45)
isHeaderLikeRow(cols) ==
    /\ <<"d", "a", "t", "e">> \in Range(Lowered(cols))
    /\ \/ <<"d", "e", "s", "c", "r", "i", "p", "t", "i", "o", "n">> \in Range(Lowered(cols))
       \/ Includes(CommaJoined(Lowered(cols)), <<"d", "e", "t", "a", "i", "l", "s">>)
    /\ \/ <<"a", "m", "o", "u", "n", "t">> \in Range(Lowered(cols))
       \/ <<"d", "e", "b", "i", "t">> \in Range(Lowered(cols))
       \/ <<"c", "r", "e", "d", "i", "t">> \in Range(Lowered(cols))

\* The points of one row in scoreRows (lines 95-97)
RowPoints(r) ==
    (IF IsoShape(r.date) \/ \E i \in 1..Len(r.date) : r.date[i] \in Digit
     THEN 2 ELSE 0)
    + (IF AmountShape(r.amount) THEN 1 ELSE 0)
    + (IF \E i \in 1..Len(r.description) : r.description[i] \in Letter
       THEN 1 ELSE 0)
RECURSIVE scoreRows(_)
\* scoreRows (lines 92-100)
scoreRows(rows) ==
    IF rows = <<>> THEN 0 ELSE RowPoints(Head(rows)) + scoreRows(Tail(rows))

Described(rows) == SelectSeq(rows, LAMBDA r : r.description # <<>>)
\* mappedHeader (lines 107-116)
MappedHeader(records, tie) ==
    Described([i \in 1..(Len(records) - 1) |->
                  mapHeaderRow(records[1], records[i + 1], tie)])
\* .filter((cols, idx) => (idx === 0 ? !isHeaderLikeRow(cols) : true)) (line 129)
SimpleKept(records) ==
    IF records # <<>> /\ isHeaderLikeRow(records[1]) THEN Tail(records) ELSE records
\* mappedSimple (lines 119-131)
MappedSimple(records, tie) ==
    Described([i \in 1..Len(SimpleKept(records)) |->
                  mapNoHeaderRow(SimpleKept(records)[i], tie)])
\* The choice that goes to the no-header candidate at equal score and equal
\* number of rows
Chosen_TieToSimple(mappedHeader, mappedSimple) ==
    IF \/ scoreRows(mappedSimple) > scoreRows(mappedHeader)
       \/ /\ scoreRows(mappedSimple) = scoreRows(mappedHeader)
          /\ Len(mappedSimple) >= Len(mappedHeader)
    THEN mappedSimple ELSE mappedHeader
\* The choice between the two (lines 134-140)
Chosen(mappedHeader, mappedSimple) ==
    IF \/ scoreRows(mappedSimple) > scoreRows(mappedHeader)
       \/ /\ scoreRows(mappedSimple) = scoreRows(mappedHeader)
          /\ Len(mappedSimple) > Len(mappedHeader)
    THEN mappedSimple ELSE mappedHeader
\* parseCsv (lines 102-141)
parseCsv(buffer, tie) ==
    Chosen(MappedHeader(Parsed(Records(buffer)), tie),
           MappedSimple(Parsed(Records(buffer)), tie))

(***************************************************************************)
(* Calls of parseCsv: on a buffer of a header line, or none, and data      *)
(* lines.                                                                  *)
(***************************************************************************)

\* The greatest number of data lines of a buffer
MaxData == 5

\* Header lines: one that isHeaderLikeRow knows, one of other names that
\* mapHeaderRow knows, two with the columns in another order, and a line
\* of no names.
HeaderPlain ==
    <<"d", "a", "t", "e", ",", "d", "e", "s", "c", "r", "i", "p", "t", "i",
      "o", "n", ",", "a", "m", "o", "u", "n", "t">>
HeaderBank ==
    <<"T", "r", "a", "n", "s", "a", "c", "t", "i", "o", "n", " ", "D", "a",
      "t", "e", ",", "D", "e", "t", "a", "i", "l", "s", ",", "A", "m", "o",
      "u", "n", "t", " ", "(", "P", "H", "P", ")">>
HeaderAmountFirst ==
    <<"a", "m", "o", "u", "n", "t", ",", "d", "e", "s", "c", "r", "i", "p",
      "t", "i", "o", "n", ",", "d", "a", "t", "e">>
HeaderDescriptionFirst ==
    <<"d", "e", "s", "c", "r", "i", "p", "t", "i", "o", "n", ",", "d", "a",
      "t", "e", ",", "a", "m", "o", "u", "n", "t">>
LineOfSigns ==
    <<"-", ",", "?", ",", "1", "0", "0", "0", "0", "0", "0", "0", "0", "0",
      "0", "0", "0", "0", "0", "0", "0", "0", "0", "0", "0", "0">>
CsvHeaders ==
    {HeaderPlain, HeaderBank, HeaderAmountFirst, HeaderDescriptionFirst, LineOfSigns}
\* Data lines: date, description, amount; description, date, amount
DataCoffee ==
    <<"2", "0", "2", "5", "-", "0", "7", "-", "3", "1", ",", "C", "o", "f",
      "f", "e", "e", ",", "-", "3", ".", "5", "0">>
DataRent ==
    <<"R", "e", "n", "t", ",", "3", "1", "/", "0", "7", "/", "2", "0", "2",
      "5", ",", "1", "2", "0", "0">>
CsvDataLines == {DataCoffee, DataRent, LineOfSigns}

CsvBuffers ==
    {TextOf(h \o b) :
        h \in {<<>>} \cup {<<l>> : l \in CsvHeaders},
        b \in StringsOver(CsvDataLines, MaxData)}

InitCsv ==
    /\ PdfIdle
    /\ npc = "call"
    /\ fn = "parseCsv"
    /\ raw \in CsvBuffers
    /\ tieUp = FALSE
    /\ out = <<>>
    /\ again = <<>>

CallParseCsv ==
    fn = "parseCsv" /\ Built(parseCsv(raw, tieUp))

NextCsv == CallParseCsv

SpecCsv == InitCsv /\ [][NextCsv]_vars

(***************************************************************************)
(* Calls of rowPointFrom and of headerPointFrom on two rows and on two     *)
(* headers: the first is scored into out, the second into again.  The      *)
(* descriptions and names are chosen for their hash: the perturbation is   *)
(* 0 for some and 0.0049995, the greatest there is, for others.            *)
(***************************************************************************)

ScoredRows ==
    { [date |-> <<"2", "0", "2", "5", "-", "0", "7", "-", "3", "1">>,
       description |->
           <<"I", "y", "x", "r", "m", "p">>,
       amount |-> <<"-", "3", ".", "5", "0">>, currency |-> <<"U", "S", "D">>],
      [date |-> <<"2", "0", "2", "5", "-", "0", "7", "-", "3", "1">>,
       description |->
           <<"K", "y", "l", "p", "p", "i", "a">>,
       amount |-> <<"-", "3", ".", "5", "0">>, currency |-> <<"U", "S", "D">>],
      [date |-> <<"2", "0", "2", "5", "-", "0", "7", "-", "3", "1">>,
       description |->
           <<"D", "b", "w", "p", "w", "f">>,
       amount |-> <<"-", "3", ".", "5", "0">>, currency |-> <<"U", "S", "D">>],
      [date |-> <<"2", "0", "2", "5", "-", "0", "7", "-", "3", "1">>,
       description |->
           <<"S", "s", "u", "a", "q", "s", "i">>,
       amount |-> <<"-", "3", ".", "5", "0">>, currency |-> <<"U", "S", "D">>],
      [date |-> <<"2", "0", "2", "5", "-", "0", "7", "-", "3", "1">>,
       description |->
           <<"T", "g", "a", "l", "t", "z", "v", "p", "i", "s", "i", "y", "b",
             "e", "b", "i", "k", "v", "r", "t", "a", "r", "i", "i", "a",
             "l">>,
       amount |-> <<"-", "3", ".", "5", "0">>, currency |-> <<"u", "n", "k", "n", "o", "w", "n">>],
      [date |-> <<"2", "0", "2", "5", "-", "0", "7", "-", "3", "1">>,
       description |->
           <<"I", "w", "u", "e", "l", "n", "v", "l", "x", "i", "y", "o", "o",
             "q", "i", "a", "e", "h", "z", "g", "k", "y", "l", "u", "r", "u",
             "u", "a", "n", "f", "s", "i", "d", "m", "m", "g", "c", "i", "k",
             "d">>,
       amount |-> <<"-", "3", ".", "5", "0">>, currency |-> <<"U", "S", "D">>],
      [date |-> <<"2", "0", "2", "5", "-", "0", "7", "-", "3", "1">>,
       description |->
           <<"S", "b", "l", "j", "r", "s", "y", "p", "f", "a", "p", "c", "r",
             "t", "u", "q", "n", "d", "w", "i", "r", "l", "u", "e", "k", "x",
             "c", "o", "k", "n", "u", "j", "b", "i", "h", "d", "a", "h",
             "s">>,
       amount |-> <<"-", "3", ".", "5", "0">>, currency |-> <<"U", "S", "D">>],
      [date |-> <<"u", "n", "k", "n", "o", "w", "n">>,
       description |->
           <<"u", "n", "k", "n", "o", "w", "n">>,
       amount |-> <<"0", ".", "0", "0">>, currency |-> <<"u", "n", "k", "n", "o", "w", "n">>] }
ScoredHeaders ==
    { [bank |-> <<"N", "T", "T", "Y", "B">>,
       bank_account |-> <<"1", "2", "3", "4">>,
       customer_account_number |-> <<"1", "2", "3", "4">>,
       statement_date |-> <<"2", "0", "2", "5", "-", "0", "8", "-", "0", "1">>,
       opening_balance |-> <<"1", "0", "0", ".", "0", "0">>,
       closing_balance |-> <<"9", "6", ".", "5", "0">>,
       currency |-> <<"u", "n", "k", "n", "o", "w", "n">>],
      [bank |-> <<"O", "W", "P", "R", "B">>,
       bank_account |-> <<"1", "2", "3", "4">>,
       customer_account_number |-> <<"1", "2", "3", "4">>,
       statement_date |-> <<"2", "0", "2", "5", "-", "0", "8", "-", "0", "1">>,
       opening_balance |-> <<"1", "0", "0", ".", "0", "0">>,
       closing_balance |-> <<"9", "6", ".", "5", "0">>,
       currency |-> <<"P", "H", "P">>],
      [bank |-> <<"u", "n", "k", "n", "o", "w", "n">>,
       bank_account |-> <<"N", "A", "N", "A", "U">>,
       customer_account_number |-> <<"1", "2", "3", "4">>,
       statement_date |-> <<"2", "0", "2", "5", "-", "0", "8", "-", "0", "1">>,
       opening_balance |-> <<"1", "0", "0", ".", "0", "0">>,
       closing_balance |-> <<"9", "6", ".", "5", "0">>,
       currency |-> <<"P", "H", "P">>],
      [bank |-> <<"B", "H", "D", "V", "Z">>,
       bank_account |-> <<"1", "2", "3", "4">>,
       customer_account_number |-> <<"1", "2", "3", "4">>,
       statement_date |-> <<"u", "n", "k", "n", "o", "w", "n">>,
       opening_balance |-> <<"1", "0", "0", ".", "0", "0">>,
       closing_balance |-> <<"9", "6", ".", "5", "0">>,
       currency |-> <<"u", "n", "k", "n", "o", "w", "n">>] }

InitRanking ==
    /\ PdfIdle
    /\ npc = "call"
    /\ \/ fn = "rowPointFrom" /\ raw \in [a : ScoredRows, b : ScoredRows]
       \/ fn = "headerPointFrom" /\ raw \in [a : ScoredHeaders, b : ScoredHeaders]
    /\ tieUp = FALSE
    /\ out = <<>>
    /\ again = <<>>

\* The two calls, whose results are p and q
ScoredBoth(p, q) ==
    /\ npc \in {"call", "done"}
    /\ IF npc = "call"
       THEN out' = p /\ npc' = "done" /\ UNCHANGED again
       ELSE again' = q /\ npc' = "redone" /\ UNCHANGED out
    /\ UNCHANGED <<fn, raw, tieUp>>
    /\ UNCHANGED <<pc, warnings, s1, s2, result, response>>
    /\ UNCHANGED ocrVars

CallRowPointFrom ==
    fn = "rowPointFrom" /\ ScoredBoth(rowPointFrom(raw.a), rowPointFrom(raw.b))
CallHeaderPointFrom ==
    fn = "headerPointFrom"
        /\ ScoredBoth(headerPointFrom(raw.a), headerPointFrom(raw.b))

NextRanking ==
    \/ CallRowPointFrom
    \/ CallHeaderPointFrom

SpecRanking == InitRanking /\ [][NextRanking]_vars

(***************************************************************************)
(* Properties of the statement builders.                                   *)
(***************************************************************************)

\* The statement of a finished call of rowsToNormalized
RowsDone == fn = "rowsToNormalized" /\ npc = "done"

\* The normalised currencies of the rows given to the call
RowCurrencies ==
    [i \in 1..Len(raw.rows) |->
        [currency |-> normalizeCurrency(Given(raw.rows[i].currency, <<>>))]]
\* The normalised currency of meta
MetaCurrency == normalizeCurrency(Given(raw.meta.currency, <<>>))

\* C15: the header currency of rowsToNormalized is the normalised currency
\* of meta when that is an ISO code, otherwise the most frequent ISO currency
\* of the normalised rows (the first met among equals), otherwise "unknown".
C15_HeaderCurrency ==
    RowsDone =>
        out.header.currency =
            IF IsoCurrency(MetaCurrency) THEN MetaCurrency
            ELSE majorityIsoCurrency(RowCurrencies)

\* C17: after rowsToNormalized a transaction whose own currency is no ISO
\* code has the header currency if that is an ISO code and "unknown"
\* otherwise, and the row_point of every transaction is rowPointFrom of the
\* fields it ends with.
C17_BackfillThenScore ==
    RowsDone =>
        \A i \in 1..Len(out.transactions) :
            /\ ~ IsoCurrency(RowCurrencies[i].currency) =>
                   out.transactions[i].currency =
                       IF IsoCurrency(out.header.currency)
                       THEN out.header.currency ELSE Unknown
            /\ out.transactions[i].row_point = rowPointFrom(out.transactions[i])
\* C17: a row without a currency of its own took an ISO header currency.
C17_Witness ==
    /\ RowsDone
    /\ \E i \in 1..Len(out.transactions) :
          /\ ~ IsoCurrency(RowCurrencies[i].currency)
          /\ IsoCurrency(out.header.currency)
          /\ out.transactions[i].currency = out.header.currency

\* A finished call of one of the two statement builders
StatementDone ==
    fn \in {"rowsToNormalized", "parsePdfTextToNormalized"} /\ npc = "done"

\* Opening balance plus the integer sum of the transactions' cents is the
\* closing balance.
BalancedInCents(st) ==
    ExactCents(<<st.header.opening_balance>> \o Amounts(st.transactions))
        = CentsOf(st.header.closing_balance)
\* The doc_point of a statement to which the bonus is added exactly if bonus
DocPointGiven(st, bonus) ==
    Rounded5(MathMin(Natural(1),
        Plus(OverNat(Plus(NumberOfPoint(st.header.row_point),
                          IF st.transactions = <<>> THEN PlusZero
                          ELSE OverNat(SumPoints(st.transactions, PlusZero),
                                       Len(st.transactions))), 2),
             IF bonus THEN Bonus ELSE PlusZero)))

\* C13: footer.balanced is true exactly when the opening balance plus the
\* exact sum of the transaction amounts equals the closing balance in cents,
\* and doc_point carries the reconciliation bonus exactly when the flag is set.
C13_BalancedExactly ==
    StatementDone =>
        /\ out.footer.balanced = BalancedInCents(out)
        /\ out.footer.doc_point = DocPointGiven(out, out.footer.balanced)
\* The flag and the bonus agree (second half of C13 alone).
FlagIsBonus ==
    StatementDone => out.footer.doc_point = DocPointGiven(out, out.footer.balanced)

\* A finished call of parsePdfTextToNormalized, its source text, the
\* document currency of the 'Currency:' label and the lines read as rows
TextDone == fn = "parsePdfTextToNormalized" /\ npc = "done"
SourceText == Source(Given(raw, <<>>))
DocumentCurrency == normalizeCurrency(Given(CurrencyValue(SourceText), <<>>))
AmountTokens ==
    [i \in 1..Len(RowLines(SourceText)) |-> RowMatch(RowLines(SourceText)[i]).amt]

\* C16: in parsePdfTextToNormalized the currency of a transaction is the one
\* recognised in its amount token, otherwise the document currency if that
\* resolved to an ISO code, otherwise "unknown".
C16_RowCurrencyPrecedence ==
    TextDone =>
        /\ Len(out.transactions) = Len(AmountTokens)
        /\ \A i \in 1..Len(out.transactions) :
              out.transactions[i].currency =
                  IF IsoCurrency(normalizeCurrency(AmountTokens[i]))
                  THEN normalizeCurrency(AmountTokens[i])
                  ELSE IF IsoCurrency(DocumentCurrency) THEN DocumentCurrency
                  ELSE Unknown

\* A score string: one digit, a point and five digits, of a value from 0 to 1
ScoreShape(s) ==
    /\ Len(s) = 7
    /\ s[2] = "."
    /\ \A i \in {1, 3, 4, 5, 6, 7} : s[i] \in Digit
    /\ \/ s[1] = "0"
       \/ s[1] = "1" /\ \A i \in 3..7 : s[i] = "0"
SameFields(t, u) ==
    /\ t.date = u.date /\ t.description = u.description
    /\ t.amount = u.amount /\ t.currency = u.currency

\* C12: in a statement built by rowsToNormalized or parsePdfTextToNormalized
\* the row_point of every transaction and of the header and the doc_point of
\* the footer are numbers from 0 to 1 written with five decimals, and
\* transactions of the same fields have the same row_point.
C12_ScoresInUnitRange ==
    StatementDone =>
        /\ ScoreShape(out.header.row_point)
        /\ ScoreShape(out.footer.doc_point)
        /\ \A i \in 1..Len(out.transactions) :
              /\ ScoreShape(out.transactions[i].row_point)
              /\ \A j \in 1..Len(out.transactions) :
                    SameFields(out.transactions[i], out.transactions[j]) =>
                        out.transactions[i].row_point = out.transactions[j].row_point
\* C12: a header whose weighted sum and perturbation exceed 1 was scored
\* 1.00000, in a statement with two transactions of the same fields.
C12_Witness ==
    /\ StatementDone
    /\ out.header.row_point = <<"1", ".", "0", "0", "0", "0", "0">>
    /\ Len(out.transactions) = 2
    /\ SameFields(out.transactions[1], out.transactions[2])

\* A field that is a non-empty string
Filled(x) == x # <<>> /\ x # Absent /\ x \in Seq(STRING)
\* A field of the input that is not given or blank
Missing(x) == x = Absent \/ Trim(x) = <<>>
HeaderNames ==
    {"bank", "bank_account", "customer_account_number", "statement_date",
     "opening_balance", "closing_balance", "currency", "row_point"}
TxnNames == {"date", "description", "amount", "currency", "row_point"}
FooterNames == {"num_transactions", "total_amount_parsed", "balanced", "doc_point"}
\* Every field of the statement is there and filled.
Complete(st) ==
    /\ DOMAIN st = {"header", "transactions", "footer"}
    /\ DOMAIN st.header = HeaderNames
    /\ \A f \in HeaderNames : Filled(st.header[f])
    /\ \A i \in 1..Len(st.transactions) :
          /\ DOMAIN st.transactions[i] = TxnNames
          /\ \A f \in TxnNames : Filled(st.transactions[i][f])
    /\ DOMAIN st.footer = FooterNames
    /\ st.footer.num_transactions = Len(st.transactions)
    /\ Filled(st.footer.total_amount_parsed)
    /\ st.footer.balanced \in BOOLEAN
    /\ Filled(st.footer.doc_point)
\* "unknown" and "0.00" stand for what the rows and meta do not give.
RowStandIns ==
    /\ \A f \in {"bank", "bank_account", "statement_date"} :
          Missing(raw.meta[f]) => out.header[f] = Unknown
    /\ \A f \in {"opening_balance", "closing_balance"} :
          Missing(raw.meta[f]) => out.header[f] = ZeroAmount
    /\ Len(out.transactions) = Len(raw.rows)
    /\ \A i \in 1..Len(raw.rows) :
          /\ \A f \in {"date", "description"} :
                Missing(raw.rows[i][f]) => out.transactions[i][f] = Unknown
          /\ Missing(raw.rows[i].amount) => out.transactions[i].amount = ZeroAmount
\* A text that is not given or empty gives the statement of stand-ins.
TextStandIns ==
    Missing(raw) =>
        /\ \A f \in HeaderNames \ {"opening_balance", "closing_balance", "row_point"} :
              out.header[f] = Unknown
        /\ out.header.opening_balance = ZeroAmount
        /\ out.header.closing_balance = ZeroAmount
        /\ out.transactions = <<>>
        /\ out.footer.total_amount_parsed = ZeroAmount

\* C19: the statement returned by rowsToNormalized and by
\* parsePdfTextToNormalized has every header, transaction and footer field
\* present and non-empty, with "unknown" or "0.00" in the place of what the
\* input does not give.
C19_SchemaTotal ==
    /\ StatementDone => Complete(out)
    /\ RowsDone => RowStandIns
    /\ TextDone => TextStandIns
\* C19: a row without description, under no meta, got "unknown".
C19_Witness ==
    /\ RowsDone
    /\ raw.meta = NoMeta
    /\ \E i \in 1..Len(raw.rows) :
          /\ raw.rows[i].description = Absent
          /\ out.transactions[i].description = Unknown

(***************************************************************************)
(* Properties of parseCsv.                                                 *)
(***************************************************************************)

CsvDone == fn = "parseCsv" /\ npc = "done"
\* The records of the buffer and the two candidates
CsvRecords == Parsed(Records(raw))
HeaderCandidate == MappedHeader(CsvRecords, tieUp)
SimpleCandidate == MappedSimple(CsvRecords, tieUp)

\* C14: for a buffer of a genuine header line and five data lines whose
\* header line isHeaderLikeRow does not know, parseCsv returns the header
\* candidate, and the header line is none of the returned transactions.
GenuineHeader(names) ==
    /\ \E k \in 1..Len(DateKeys) : DateKeys[k] \in Range(names)
    /\ \E k \in 1..Len(DescKeys) : DescKeys[k] \in Range(names)
    /\ \E k \in 1..Len(AmountKeys) : AmountKeys[k] \in Range(names)
HeaderKeptAsData ==
    /\ Len(CsvRecords) = 6
    /\ GenuineHeader(CsvRecords[1])
    /\ ~ isHeaderLikeRow(CsvRecords[1])
C14_HeaderLineNeverReturned ==
    CsvDone /\ HeaderKeptAsData =>
        /\ out = HeaderCandidate
        /\ \A i \in 1..Len(out) : out[i] # mapNoHeaderRow(CsvRecords[1], tieUp)

\* C20: parseCsv returns the no-header candidate exactly when its score is
\* higher than the header candidate's, or the scores are equal and it has
\* more rows, and the header candidate in every other case.
SimpleWins ==
    \/ scoreRows(SimpleCandidate) > scoreRows(HeaderCandidate)
    \/ /\ scoreRows(SimpleCandidate) = scoreRows(HeaderCandidate)
       /\ Len(SimpleCandidate) > Len(HeaderCandidate)
C20_SimpleOnlyWhenStrictlyBetter ==
    CsvDone => out = IF SimpleWins THEN SimpleCandidate ELSE HeaderCandidate
\* C20: two different candidates of equal score and equal number of rows,
\* and the header candidate was returned.
C20_Witness ==
    /\ CsvDone
    /\ scoreRows(SimpleCandidate) = scoreRows(HeaderCandidate)
    /\ Len(SimpleCandidate) = Len(HeaderCandidate)
    /\ SimpleCandidate # HeaderCandidate
    /\ out = HeaderCandidate

(***************************************************************************)
(* Properties of the scores.                                               *)
(***************************************************************************)

\* The weighted feature sums of a row and of a header, in thousandths
RowSum(row) ==
    300 * (IF row.date # Unknown /\ IsoShape(row.date) THEN 1 ELSE 0)
    + 400 * (IF AmountShape(row.amount) THEN 1 ELSE 0)
    + 5 * Min(40, SquashedLength(row.description))
    + 100 * (IF IsoCurrency(row.currency) THEN 1 ELSE 0)
HeaderSum(header) ==
    180 * (IF header.bank # Unknown THEN 1 ELSE 0)
    + 140 * (IF header.bank_account # Unknown THEN 1 ELSE 0)
    + 140 * (IF header.customer_account_number # Unknown THEN 1 ELSE 0)
    + 180 * (IF header.statement_date # Unknown /\ IsoShape(header.statement_date)
             THEN 1 ELSE 0)
    + 120 * (IF AmountShape(header.opening_balance) THEN 1 ELSE 0)
    + 120 * (IF AmountShape(header.closing_balance) THEN 1 ELSE 0)
    + 120 * (IF IsoCurrency(header.currency) THEN 1 ELSE 0)
FeatureSum(x) == IF fn = "rowPointFrom" THEN RowSum(x) ELSE HeaderSum(x)
\* The seed of the perturbation of a row and of a header
SeedOf(x) ==
    IF fn = "rowPointFrom"
    THEN Joined(<<x.date, x.description, x.amount, x.currency>>)
    ELSE Joined(<<x.bank, x.bank_account, x.customer_account_number,
                  x.statement_date, x.opening_balance, x.closing_balance,
                  x.currency>>)
\* 0 <= j < 0.005
SmallPerturbation(j) ==
    /\ ~ (j.neg /\ j.m # <<>>)
    /\ LessThan(j, Ratio(5, 1000))
\* A score string in hundred-thousandths
PointValue(s) == NumberOf(Keep(s, Digit))

\* C18: the perturbation of a row and of a header is at least 0 and less
\* than 0.005, and of two rows (two headers) the one of the greater weighted
\* feature sum never has the smaller row_point.
C18_PerturbationKeepsRanking ==
    fn \in {"rowPointFrom", "headerPointFrom"} =>
        /\ SmallPerturbation(jitter(SeedOf(raw.a), JitterScale))
        /\ SmallPerturbation(jitter(SeedOf(raw.b), JitterScale))
        /\ npc = "redone" =>
              /\ FeatureSum(raw.a) > FeatureSum(raw.b) =>
                     PointValue(out) >= PointValue(again)
              /\ FeatureSum(raw.b) > FeatureSum(raw.a) =>
                     PointValue(again) >= PointValue(out)
\* C18: two rows whose feature sums are 0.005 apart, the lesser with the
\* greatest perturbation and the greater with none, scored alike.
C18_Witness ==
    /\ fn = "rowPointFrom"
    /\ npc = "redone"
    /\ FeatureSum(raw.a) = FeatureSum(raw.b) + 5
    /\ jitter(SeedOf(raw.a), JitterScale) = PlusZero
    /\ jitter(SeedOf(raw.b), JitterScale) = Times(JitterScale, Ratio(9999, 10000))
    /\ out = again

(***************************************************************************)
(* Further properties of the cascade, checked under SpecPdf.               *)
(***************************************************************************)

FailedPdfParse == Warning("pdf-parse failed", "pdf-parse")
FailedPdfJs == Warning("pdfjs-dist text failed", "pdfjs-dist")
PastStage1 == pc # "stage1"
PastStage2 == pc \notin {"stage1", "stage2"}

\* C21: a stage that raises leaves one warning and the next stage is
\* attempted; the message of the error that parsePdfSmart throws is the
\* warnings joined by " | " in the order of the stages: one of stage 1, one
\* of stage 2 and the failure of the OCR last.
C21_WarningPerStage ==
    /\ s1.kind = "raised" =>
          /\ PastStage1
          /\ Len(warnings) >= 1 /\ warnings[1] = FailedPdfParse
          /\ pc # "stage2" => s2.kind # "none"
    /\ s2.kind = "raised" =>
          /\ PastStage2
          /\ Len(warnings) >= 2 /\ warnings[2] = FailedPdfJs
          /\ pc # "ocr" => ocrPc # "idle"
    /\ result.kind = "error" =>
          /\ Len(warnings) = 3
          /\ warnings[1] \in {LowPdfParse, FailedPdfParse}
          /\ warnings[2] \in {LowPdfJs, FailedPdfJs}
          /\ warnings[3] = Warning("OCR failed", ocrErr)
          /\ result.message =
                Pieces(warnings[1]) \o <<" | ">> \o Pieces(warnings[2])
                    \o <<" | ">> \o Pieces(warnings[3])
          /\ Cardinality({i \in 1..Len(result.message) :
                             result.message[i] = " | "}) = 2
\* C21: the three stages raised and the call has thrown.
C21_Witness ==
    /\ pc = "thrown"
    /\ s1.kind = "raised"
    /\ s2.kind = "raised"
    /\ result.kind = "error"

Accepted(o) == o.kind = "text" /\ o.text.nonws >= MinYield

\* C22: once stage 1 or stage 2 has returned a text of at least 50
\* non-whitespace characters parsePdfSmart returns it: no later stage runs,
\* no warning is added and no OCR worker is created; and the stages run in
\* the order pdf-parse, pdfjs-dist, OCR.
C22_ShortCircuit ==
    /\ Accepted(s1) =>
          /\ pc \in {"returned", "responded"}
          /\ result = Ok(s1.text, <<>>, "pdf-parse")
          /\ warnings = <<>>
          /\ s2 = NoOutcome
          /\ ocrPc = "idle" /\ worker = "none" /\ doc = "none"
    /\ Accepted(s2) =>
          /\ pc \in {"returned", "responded"}
          /\ result.kind = "ok" /\ result.text = s2.text
          /\ result.strategy = "pdfjs-dist"
          /\ Len(warnings) = 1 /\ result.warnings = warnings
          /\ ocrPc = "idle" /\ worker = "none" /\ doc = "none"
    /\ s2.kind # "none" => s1.kind # "none" /\ ~ Accepted(s1)
    /\ ocrPc # "idle" =>
          /\ s1.kind # "none" /\ ~ Accepted(s1)
          /\ s2.kind # "none" /\ ~ Accepted(s2)
\* C22: stage 1 returned exactly 50 characters and the route has answered.
C22_Witness ==
    /\ pc = "responded"
    /\ s1 = Returned(Text("pdf-parse", MinYield))
    /\ response.status = 200

OcrReturned == pc \in {"returned", "responded"} /\ ocrPc = "returned"

C28_ShortText ==
    /\ pc = "responded"
    /\ ocrPc = "returned"
    /\ ocrText > 0 /\ ocrText < MinYield
    /\ response.status = 200

(***************************************************************************)
(* Further properties of the statement builders, checked under             *)
(* SpecStatement.                                                          *)
(***************************************************************************)

\* The sum of the row_points of rows, in hundred-thousandths
RECURSIVE PointSum(_)
PointSum(rows) ==
    IF rows = <<>> THEN 0
    ELSE PointValue(Head(rows).row_point) + PointSum(Tail(rows))
Distance(a, b) == IF a >= b THEN a - b ELSE b - a
\* d is a score nearest to min(1, (h + s / n) / 2 + b), all in
\* hundred-thousandths; s / n is 0 when n is 0.
NearestDocPoint(d, h, s, n, b) ==
    IF n = 0 THEN Distance(2 * d, Min(2 * Scale5, h + 2 * b)) <= 1
    ELSE Distance(2 * n * d, Min(2 * n * Scale5, n * h + s + 2 * n * b)) <= n

C23_TwoRows ==
    /\ StatementDone
    /\ Len(out.transactions) = 2
    /\ ~ out.footer.balanced
    /\ out.transactions[1].row_point # out.transactions[2].row_point

\* The date, description and amount that the first pass gives the i-th row
\* of the call
DerivedDate(i) == toISODate(Given(raw.rows[i].date, Unknown))
DerivedDescription(i) ==
    OrElse(Trim(Given(raw.rows[i].description, <<>>)), Unknown)
DerivedAmount(i) == normalizeAmount(Given(raw.rows[i].amount, <<"0">>), tieUp)

\* C24: rowsToNormalized returns one transaction for every row, the i-th
\* from the i-th row, and the footer is that of the returned transactions:
\* their number, the sum of their amounts exact in cents, and the doc_point
\* of their row_points.
C24_OnePerRowAndFooter ==
    RowsDone =>
        /\ Len(out.transactions) = Len(raw.rows)
        /\ \A i \in 1..Len(raw.rows) :
              /\ out.transactions[i].date = DerivedDate(i)
              /\ out.transactions[i].description = DerivedDescription(i)
              /\ out.transactions[i].amount = DerivedAmount(i)
        /\ out.footer.num_transactions = Len(out.transactions)
        /\ out.footer.total_amount_parsed =
               TwoDecimals(ExactCents(Amounts(out.transactions)))
        /\ out.footer.doc_point = DocPointGiven(out, out.footer.balanced)
\* The same without the total: what holds of the code.
C24_OnePerRow ==
    RowsDone =>
        /\ Len(out.transactions) = Len(raw.rows)
        /\ \A i \in 1..Len(raw.rows) :
              /\ out.transactions[i].date = DerivedDate(i)
              /\ out.transactions[i].description = DerivedDescription(i)
              /\ out.transactions[i].amount = DerivedAmount(i)
        /\ out.footer.num_transactions = Len(out.transactions)
        /\ out.footer.doc_point = DocPointGiven(out, out.footer.balanced)

\* The non-empty lines of the source text, squeezed
TextLinesRead ==
    SelectSeq([i \in 1..Len(Lines(SourceText)) |-> Squeezed(Lines(SourceText)[i])],
              LAMBDA l : l # <<>>)
\* The first word of a line, and whether the k-th row pattern matches the
\* line: a date of the pattern's kind, a description and an amount token
FirstWord(line) == SubSeq(line, 1, Lead(line, {c \in Range(line) : c # " "}))
PatternMatches(line, k) ==
    /\ Len(FirstWord(line)) < Len(line)
    /\ IF k = 1 THEN IsoDateToken(FirstWord(line))
                ELSE NumericDateToken(FirstWord(line))
    /\ AmountStarts(line) # {}
\* The first pattern of the list that matches the line, 0 if none does
FirstPattern(line) ==
    IF PatternMatches(line, 1) THEN 1
    ELSE IF PatternMatches(line, 2) THEN 2 ELSE 0
MatchingLines == SelectSeq(TextLinesRead, LAMBDA l : FirstPattern(l) # 0)
\* The amount token and the description between the date and the token
AmountOf(line) == SubSeq(line, Least(AmountStarts(line)) + 1, Len(line))
DescriptionOf(line) ==
    SubSeq(line, Len(FirstWord(line)) + 2, Least(AmountStarts(line)) - 1)

\* C25: in parsePdfTextToNormalized every non-empty line is tried against
\* the ISO-date pattern and then the numeric-date pattern; the transactions
\* are those of the lines that match one, in the order of the lines, each
\* made of the date, description and amount that the first matching pattern
\* captures, and a line that matches none gives no transaction.
C25_RowsOfMatchingLines ==
    TextDone =>
        /\ Len(out.transactions) = Len(MatchingLines)
        /\ \A i \in 1..Len(MatchingLines) :
              /\ out.transactions[i].date = toISODate(FirstWord(MatchingLines[i]))
              /\ out.transactions[i].description =
                     OrElse(Trim(Collapsed(DescriptionOf(MatchingLines[i]))), Unknown)
              /\ out.transactions[i].amount =
                     normalizeAmount(AmountOf(MatchingLines[i]), tieUp)
\* C25: a text with lines that match no pattern, then a line of the second
\* pattern and a line of the first: two transactions in that order.
C25_Witness ==
    /\ TextDone
    /\ Len(TextLinesRead) > 2
    /\ Len(MatchingLines) = 2
    /\ FirstPattern(MatchingLines[1]) = 2
    /\ FirstPattern(MatchingLines[2]) = 1
    /\ out.transactions[1].description = <<"R", "e", "n", "t">>
    /\ out.transactions[2].description = <<"C", "o", "f", "f", "e", "e">>

\* The date of the 'Statement Date:' label, and the dates that the first
\* date token of each of the first 20 lines normalises to
LabelledDate == toISODate(Given(LabelValue(SourceText, RE_STMT_DATE), Unknown))
TokenOf(l) == DateFrom(l, Least(DateStarts(l)))
TopDates ==
    {toISODate(TokenOf(Lines(SourceText)[i])) :
        i \in {k \in 1..Len(Lines(SourceText)) :
                  k <= 20 /\ DateStarts(Lines(SourceText)[k]) # {}}} \ {Unknown}

\* C26: the statement date of parsePdfTextToNormalized is the date of the
\* 'Statement Date:' label when that normalises; otherwise it is the
\* greatest, in string order, of the normalised dates of the first 20 lines
\* (one token a line), and "unknown" when there is none.
C26_StatementDate ==
    TextDone =>
        IF LabelledDate # Unknown THEN out.header.statement_date = LabelledDate
        ELSE IF TopDates = {} THEN out.header.statement_date = Unknown
        ELSE /\ out.header.statement_date \in TopDates
             /\ \A d \in TopDates : ~ Before(out.header.statement_date, d)
\* C26: no date from the label, three different dates in the first lines,
\* the greatest of them neither on the first nor on the last dated line.
C26_Witness ==
    /\ TextDone
    /\ LabelledDate = Unknown
    /\ Cardinality(TopDates) = 3
    /\ raw = TextOf(<<LineVague, LineCoffee, LineStamp, LinePrinted>>)
    /\ out.header.statement_date =
           <<"2", "0", "2", "5", "-", "0", "8", "-", "1", "5">>
\* The label gives a date and a line has a later one.
C26_LabelWins ==
    /\ TextDone
    /\ LabelledDate # Unknown
    /\ \E d \in TopDates : Before(LabelledDate, d)
\* A text whose only date is on line 21 has no statement date.
C26_Line21 ==
    /\ TextDone
    /\ Len(out.transactions) = 1
    /\ TopDates = {}
    /\ out.header.statement_date = Unknown

\* The i-th row of the call as the first pass leaves it
FirstPassRow(i) ==
    [date |-> DerivedDate(i), description |-> DerivedDescription(i),
     amount |-> DerivedAmount(i),
     currency |-> OrElse(RowCurrencies[i].currency, Unknown)]

\* C27: after rowsToNormalized a transaction whose own currency is an ISO
\* code has the currency and the row_point of the first pass, whatever the
\* header currency, and every transaction has the date, description and
\* amount of the first pass.
C27_BackfillFrame ==
    RowsDone =>
        \A i \in 1..Len(raw.rows) :
            /\ out.transactions[i].date = FirstPassRow(i).date
            /\ out.transactions[i].description = FirstPassRow(i).description
            /\ out.transactions[i].amount = FirstPassRow(i).amount
            /\ IsoCurrency(FirstPassRow(i).currency) =>
                  /\ out.transactions[i].currency = FirstPassRow(i).currency
                  /\ out.transactions[i].row_point = rowPointFrom(FirstPassRow(i))
\* C27: a row in USD under a header in EUR, next to a row that took EUR.
C27_Witness ==
    /\ RowsDone
    /\ IsoCurrency(out.header.currency)
    /\ \E i \in 1..Len(raw.rows) :
          /\ IsoCurrency(FirstPassRow(i).currency)
          /\ out.transactions[i].currency # out.header.currency
    /\ \E i \in 1..Len(raw.rows) :
          /\ ~ IsoCurrency(FirstPassRow(i).currency)
          /\ out.transactions[i].currency = out.header.currency

\* A finished call of rowsToNormalized whose meta gives no balance and
\* whose transactions' amounts sum to zero
NoBalancesGiven ==
    /\ raw.meta.opening_balance = Absent
    /\ raw.meta.closing_balance = Absent
SumsToZero == ExactCents(Amounts(out.transactions)).m = <<>>

\* C29: when meta gives neither balance and the amounts of the transactions
\* sum to zero, rowsToNormalized reports balanced = true, doc_point carries
\* the bonus of 0.10, and the header's row_point is at least 0.24.
C29_EmptyBalances ==
    (RowsDone /\ NoBalancesGiven) =>
        /\ out.header.opening_balance = ZeroAmount
        /\ out.header.closing_balance = ZeroAmount
        /\ PointValue(out.header.row_point) >= 24 * (Scale5 \div 100)
        /\ SumsToZero =>
              /\ out.footer.balanced
              /\ out.footer.doc_point = DocPointGiven(out, TRUE)
\* The same for the calls without transactions and with two that cancel
C29_SmallAmounts ==
    (RowsDone /\ NoBalancesGiven /\ Len(raw.rows) <= 2) =>
        /\ out.header.opening_balance = ZeroAmount
        /\ out.header.closing_balance = ZeroAmount
        /\ PointValue(out.header.row_point) >= 24 * (Scale5 \div 100)
        /\ SumsToZero =>
              /\ out.footer.balanced
              /\ out.footer.doc_point = DocPointGiven(out, TRUE)
\* No rows and no meta: balanced, with the bonus.
C29_EmptyCall ==
    /\ RowsDone
    /\ raw.rows = <<>> /\ raw.meta = NoMeta
    /\ out.footer.balanced
\* Two rows that cancel, no meta: balanced.
C29_Cancelling ==
    /\ RowsDone
    /\ Len(raw.rows) = 2 /\ SumsToZero /\ NoBalancesGiven
    /\ out.footer.balanced

(***************************************************************************)
(* Further properties of the normalisers, checked under SpecNormalize.     *)
(***************************************************************************)

\* The keys of the abbreviation table with their months
Abbreviations ==
    { <<<<"j", "a", "n">>, 1>>, <<<<"f", "e", "b">>, 2>>, <<<<"m", "a", "r">>, 3>>,
      <<<<"a", "p", "r">>, 4>>, <<<<"m", "a", "y">>, 5>>, <<<<"j", "u", "n">>, 6>>,
      <<<<"j", "u", "l">>, 7>>, <<<<"a", "u", "g">>, 8>>, <<<<"s", "e", "p">>, 9>>,
      <<<<"s", "e", "p", "t">>, 9>>, <<<<"o", "c", "t">>, 10>>,
      <<<<"n", "o", "v">>, 11>>, <<<<"d", "e", "c">>, 12>> }
\* The month a word stands for: that of its key, January when it is no key
MonthOfWord(word) ==
    IF \E a \in Abbreviations : a[1] = ToLower(word)
    THEN (CHOOSE a \in Abbreviations : a[1] = ToLower(word))[2]
    ELSE 1
\* year-month-day with two digits for the month and for the day
DateOf(y, month, d) ==
    y \o <<"-">> \o (IF month < 10 THEN <<"0">> ELSE <<"1">>)
      \o <<DigitOf(month % 10)>> \o <<"-">>
      \o (IF Len(d) = 1 THEN <<"0">> \o d ELSE d)
NamedCall == fn = "toISODate" /\ npc \in {"done", "redone"}

\* C30: toISODate of 'Mon D, YYYY' and of 'D Mon YYYY', Mon a word of 3 to
\* 9 letters, is YYYY-MM-DD with MM looked up in the abbreviation table
\* without regard to case, and 01 for a word that is no key of the table.
C30_NamedMonth ==
    NamedCall =>
        /\ named1(Trim(raw)).ok =>
              out = DateOf(named1(Trim(raw)).y, MonthOfWord(named1(Trim(raw)).mon),
                           named1(Trim(raw)).d)
        /\ named2(Trim(raw)).ok =>
              out = DateOf(named2(Trim(raw)).y, MonthOfWord(named2(Trim(raw)).mon),
                           named2(Trim(raw)).d)
\* C30: "August 31, 2025" gives 2025-01-31.
C30_Witness ==
    /\ NamedCall
    /\ raw = <<"A", "u", "g", "u", "s", "t", " ", "3", "1", ",", " ",
               "2", "0", "2", "5">>
    /\ out = <<"2", "0", "2", "5", "-", "0", "1", "-", "3", "1">>
\* "3 SEPT 2025" gives 2025-09-03.
C30_UpperCaseKey ==
    /\ NamedCall
    /\ raw = <<"3", " ", "S", "E", "P", "T", " ", "2", "0", "2", "5">>
    /\ out = <<"2", "0", "2", "5", "-", "0", "9", "-", "0", "3">>

=============================================================================
